---- MODULE Spec2Model ----
(***************************************************************************)
(* A model of the plugin registry of                                       *)
(*   src/src/vs/platform/plugins/common/pluginsRegistry.ts                 *)
(* (PluginsRegistryImpl, ExtensionPoint, isValidPluginDescription).        *)
(*                                                                         *)
(* The registry is single threaded and synchronous, so every public        *)
(* method is one atomic action.  Each method is written as an operator     *)
(* from a registry state (a record of the object's fields plus the         *)
(* observable effects: handler invocations, console output, reported       *)
(* errors) to the state after the call returned or threw.                  *)
(***************************************************************************)
EXTENDS Integers, Sequences, FiniteSets, TLC

(***************************************************************************)
(* Bounds of the model.                                                    *)
(***************************************************************************)
\* number of registerPlugins calls explored
MaxBatches == 2
\* length of the longest batch handed to registerPlugins
MaxBatchLen == 2
\* number of handleExtensionPoints calls explored
MaxHandleCalls == 2
\* number of registerOneTimeActivationEventListener and
\* triggerActivationEventListeners calls explored (calls made from inside a
\* listener not counted)
MaxActivationCalls == 4
\* number of calls about one-time listeners explored next to the store
MaxIndependentCalls == 2
\* number of arrays a caller of the getters keeps
MaxReturned == 2
\* number of changes a caller makes to the arrays and descriptions it was
\* handed by the getters
MaxMutations == 2
\* number of error, warn and info calls made on the message collectors
MaxWrites == 2

\* how many times onOutput is called
MaxOnOutput == 3
\* how many times the functions returned by onOutput are called
MaxDisposeCalls == 3
\* how many times the Git logs an output
MaxLogs == 2

\* how many records an output of git status -z has
MaxRecords == 2
\* how far beyond the end of the output the index of the status parser is
\* followed
MaxOverrun == 2

(***************************************************************************)
(* JavaScript values.  A value carries its typeof tag; a string is the     *)
(* sequence of its characters, an array the sequence of its elements, an   *)
(* object the function from its own property names to their values.        *)
(***************************************************************************)
Undefined == [type |-> "undefined", val |-> <<>>]
Str(chars) == [type |-> "string", val |-> chars]
Num(digits) == [type |-> "number", val |-> digits]
Arr(elems) == [type |-> "array", val |-> elems]
Obj(props) == [type |-> "object", val |-> props]

\* typeof v
TypeOf(v) == IF v.type \in {"array", "null"} THEN "object" ELSE v.type

\* Array.isArray(v)
IsArray(v) == v.type = "array"

\* the truthiness of v in a condition (!v is its negation)
Truthy(v) ==
    CASE v.type = "undefined" -> FALSE
      [] v.type = "string" -> v.val # <<>>
      [] v.type = "number" -> v.val # <<"0">>
      [] v.type = "null" -> FALSE
      [] OTHER -> TRUE

\* hasOwnProperty.call(obj, key) for a function-modelled object
HasOwnProperty(obj, key) == key \in DOMAIN obj

(***************************************************************************)
(* Sequence helpers.                                                       *)
(***************************************************************************)
\* the set of elements of a sequence
Range(s) == {s[i] : i \in 1..Len(s)}

\* String.prototype.indexOf on character sequences: the 0-based position of
\* the first occurrence of needle in hay, or -1
IndexOf(hay, needle) ==
    LET Starts == {i \in 0..(Len(hay) - Len(needle)) :
                      SubSeq(hay, i + 1, i + Len(needle)) = needle}
    IN IF Starts = {} THEN -1
       ELSE CHOOSE i \in Starts : \A j \in Starts : i <= j

\* the last element of a non-empty sequence
Last(s) == s[Len(s)]

\* the sequence without its last element
Front(s) == SubSeq(s, 1, Len(s) - 1)

(***************************************************************************)
(* vs/base/common/paths: join and normalize on character sequences.  "/"   *)
(* separates segments; empty and "." segments are dropped, ".." removes    *)
(* the segment before it, a leading "/" (the root) is kept.                *)
(***************************************************************************)
Sep == "/"

\* path.split("/"): the segments between separators
RECURSIVE SplitPath(_)
SplitPath(p) ==
    IF p = <<>> THEN << <<>> >>
    ELSE LET rest == SplitPath(Tail(p))
         IN IF Head(p) = Sep THEN << <<>> >> \o rest
            ELSE << <<Head(p)>> \o Head(rest) >> \o Tail(rest)

\* resolve ".", "" and ".." segments, left to right; acc is the result so far
RECURSIVE ResolveSegments(_, _)
ResolveSegments(segs, acc) ==
    IF segs = <<>> THEN acc
    ELSE LET part == Head(segs)
         IN IF part = <<>> \/ part = <<".">>
            THEN ResolveSegments(Tail(segs), acc)
            ELSE IF part = <<".", ".">> /\ acc # <<>> /\ Last(acc) # <<".", ".">>
            THEN ResolveSegments(Tail(segs), Front(acc))
            ELSE ResolveSegments(Tail(segs), Append(acc, part))

\* segments.join("/")
RECURSIVE JoinSegments(_)
JoinSegments(segs) ==
    IF segs = <<>> THEN <<>>
    ELSE IF Len(segs) = 1 THEN Head(segs)
    ELSE Head(segs) \o <<Sep>> \o JoinSegments(Tail(segs))

\* paths.normalize(path)
PathNormalize(path) ==
    LET root == IF path # <<>> /\ Head(path) = Sep THEN <<Sep>> ELSE <<>>
    IN root \o JoinSegments(ResolveSegments(SplitPath(path), <<>>))

\* paths.join(a, b)
PathJoin(a, b) == PathNormalize(a \o <<Sep>> \o b)

(***************************************************************************)
(* Plugin descriptions are JavaScript objects (or null, a missing entry).  *)
(***************************************************************************)
Null == [type |-> "null", val |-> <<>>]

\* v[key]: the property, or undefined when v has no such own property
Get(v, key) ==
    IF v.type = "object" /\ HasOwnProperty(v.val, key) THEN v.val[key]
    ELSE Undefined

\* _isStringArray(arr)
isStringArray(arr) ==
    /\ IsArray(arr)
    /\ \A i \in 1..Len(arr.val) : TypeOf(arr.val[i]) = "string"

\* the notice pushed when main does not start with the extension folder
MainNotice(extensionFolderPath, main) ==
    LET normalizedAbsolutePath == PathNormalize(PathJoin(extensionFolderPath, main.val))
    IN IF IndexOf(normalizedAbsolutePath, extensionFolderPath) # 0
       THEN <<"pluginDescription.main2">>
       ELSE <<>>

\* the validator without the two checks that pair activationEvents and main
isValidPluginDescription_Unpaired(extensionFolderPath, pluginDescription) ==
    LET publisher == Get(pluginDescription, "publisher")
        name == Get(pluginDescription, "name")
        engines == Get(pluginDescription, "engines")
        extensionDependencies == Get(pluginDescription, "extensionDependencies")
        activationEvents == Get(pluginDescription, "activationEvents")
        main == Get(pluginDescription, "main")
        Fail(notice) == [ok |-> FALSE, notices |-> <<notice>>]
    IN IF pluginDescription.type \in {"null", "undefined"}
       THEN Fail("pluginDescription.empty")
       ELSE IF TypeOf(publisher) # "string"
       THEN Fail("pluginDescription.publisher")
       ELSE IF TypeOf(name) # "string"
       THEN Fail("pluginDescription.name")
       ELSE IF ~Truthy(engines)
       THEN Fail("pluginDescription.engines")
       ELSE IF TypeOf(Get(engines, "vscode")) # "string"
       THEN Fail("pluginDescription.engines.vscode")
       ELSE IF TypeOf(extensionDependencies) # "undefined"
               /\ ~isStringArray(extensionDependencies)
       THEN Fail("pluginDescription.extensionDependencies")
       ELSE IF TypeOf(activationEvents) # "undefined"
               /\ ~isStringArray(activationEvents)
       THEN Fail("pluginDescription.activationEvents1")
       ELSE IF TypeOf(main) # "undefined" /\ TypeOf(main) # "string"
       THEN Fail("pluginDescription.main1")
       ELSE IF TypeOf(main) # "undefined"
       THEN [ok |-> TRUE, notices |-> MainNotice(extensionFolderPath, main)]
       ELSE [ok |-> TRUE, notices |-> <<>>]

\* the validator going on after a failed check: every check that fails
\* pushes its notice
isValidPluginDescription_AllNotices(extensionFolderPath, pluginDescription) ==
    LET publisher == Get(pluginDescription, "publisher")
        name == Get(pluginDescription, "name")
        engines == Get(pluginDescription, "engines")
        extensionDependencies == Get(pluginDescription, "extensionDependencies")
        activationEvents == Get(pluginDescription, "activationEvents")
        main == Get(pluginDescription, "main")
        If(failed, notice) == IF failed THEN <<notice>> ELSE <<>>
        failures ==
            If(TypeOf(publisher) # "string", "pluginDescription.publisher")
            \o If(TypeOf(name) # "string", "pluginDescription.name")
            \o If(~Truthy(engines), "pluginDescription.engines")
            \o If(Truthy(engines) /\ TypeOf(Get(engines, "vscode")) # "string",
                  "pluginDescription.engines.vscode")
            \o If(TypeOf(extensionDependencies) # "undefined"
                      /\ ~isStringArray(extensionDependencies),
                  "pluginDescription.extensionDependencies")
            \o If(TypeOf(activationEvents) # "undefined"
                      /\ ~isStringArray(activationEvents),
                  "pluginDescription.activationEvents1")
            \o If(TypeOf(activationEvents) # "undefined"
                      /\ isStringArray(activationEvents)
                      /\ TypeOf(main) = "undefined",
                  "pluginDescription.activationEvents2")
            \o If(TypeOf(main) # "undefined" /\ TypeOf(main) # "string",
                  "pluginDescription.main1")
            \o If(TypeOf(main) = "string" /\ TypeOf(activationEvents) = "undefined",
                  "pluginDescription.main3")
    IN IF pluginDescription.type \in {"null", "undefined"}
       THEN [ok |-> FALSE, notices |-> <<"pluginDescription.empty">>]
       ELSE [ok |-> failures = <<>>,
             notices |-> (IF TypeOf(main) = "string"
                          THEN MainNotice(extensionFolderPath, main) ELSE <<>>)
                         \o failures]

\* isValidPluginDescription(extensionFolderPath, pluginDescription, notices):
\* the boolean result and the notices pushed, named by their nls keys
isValidPluginDescription(extensionFolderPath, pluginDescription) ==
    LET publisher == Get(pluginDescription, "publisher")
        name == Get(pluginDescription, "name")
        engines == Get(pluginDescription, "engines")
        extensionDependencies == Get(pluginDescription, "extensionDependencies")
        activationEvents == Get(pluginDescription, "activationEvents")
        main == Get(pluginDescription, "main")
        Fail(notice) == [ok |-> FALSE, notices |-> <<notice>>]
    IN IF pluginDescription.type \in {"null", "undefined"}
       THEN Fail("pluginDescription.empty")
       ELSE IF TypeOf(publisher) # "string"
       THEN Fail("pluginDescription.publisher")
       ELSE IF TypeOf(name) # "string"
       THEN Fail("pluginDescription.name")
       ELSE IF ~Truthy(engines)
       THEN Fail("pluginDescription.engines")
       ELSE IF TypeOf(Get(engines, "vscode")) # "string"
       THEN Fail("pluginDescription.engines.vscode")
       ELSE IF TypeOf(extensionDependencies) # "undefined"
               /\ ~isStringArray(extensionDependencies)
       THEN Fail("pluginDescription.extensionDependencies")
       ELSE IF TypeOf(activationEvents) # "undefined"
               /\ ~isStringArray(activationEvents)
       THEN Fail("pluginDescription.activationEvents1")
       ELSE IF TypeOf(activationEvents) # "undefined"
               /\ TypeOf(main) = "undefined"
       THEN Fail("pluginDescription.activationEvents2")
       ELSE IF TypeOf(main) # "undefined" /\ TypeOf(main) # "string"
       THEN Fail("pluginDescription.main1")
       ELSE IF TypeOf(main) # "undefined"
               /\ TypeOf(activationEvents) = "undefined"
       THEN [ok |-> FALSE,
             notices |-> MainNotice(extensionFolderPath, main)
                           \o <<"pluginDescription.main3">>]
       ELSE IF TypeOf(main) # "undefined"
       THEN [ok |-> TRUE, notices |-> MainNotice(extensionFolderPath, main)]
       ELSE [ok |-> TRUE, notices |-> <<>>]

(***************************************************************************)
(* The inputs explored.                                                    *)
(***************************************************************************)
\* the extension point names and the schemas they are registered with
PointNames == {"commands", "languages"}
Schemas == {"schema1", "schema2"}

\* the property key an activation event is used as
EventKey(activationEvent) == activationEvent.val

\* the activation events plugins declare
Event1 == Str(<<"onLanguage:x">>)
Event2 == Str(<<"onCommand:y">>)
ActivationEvents == {EventKey(Event1), EventKey(Event2)}

ValidEngines == Obj([vscode |-> Str(<<"*">>)])

\* a valid plugin with main and activationEvents, contributing to commands
PluginA ==
    Obj([id |-> "a", publisher |-> Str(<<"p">>), name |-> Str(<<"a">>),
         engines |-> ValidEngines,
         main |-> Str(<<".", "/", "main">>),
         activationEvents |-> Arr(<<Event1>>),
         contributes |-> Obj([commands |-> "a.commands"]),
         extensionFolderPath |-> <<"/", "ext", "/", "a">>])

\* another valid plugin that uses the id of PluginA, with neither main nor
\* activationEvents, contributing to both points
PluginA2 ==
    Obj([id |-> "a", publisher |-> Str(<<"q">>), name |-> Str(<<"a">>),
         engines |-> ValidEngines,
         contributes |-> Obj([commands |-> "a2.commands",
                              languages |-> "a2.languages"]),
         extensionFolderPath |-> <<"/", "ext", "/", "a2">>])

\* a valid plugin that names one activation event twice, as
\* src/extensions/csharp-o/package.json does, contributing to languages only
PluginB ==
    Obj([id |-> "b", publisher |-> Str(<<"p">>), name |-> Str(<<"b">>),
         engines |-> ValidEngines,
         main |-> Str(<<".", "/", "main">>),
         activationEvents |-> Arr(<<Event2, Event1, Event2>>),
         contributes |-> Obj([languages |-> "b.languages"]),
         extensionFolderPath |-> <<"/", "ext", "/", "b">>])

\* an invalid manifest: publisher is a number, activationEvents without main
PluginBad ==
    Obj([id |-> "c", publisher |-> Num(<<"4">>), name |-> Str(<<"c">>),
         engines |-> ValidEngines,
         activationEvents |-> Arr(<<Event1>>),
         contributes |-> Obj([commands |-> "c.commands"]),
         extensionFolderPath |-> <<"/", "ext", "/", "c">>])

\* the values the validator is given for the properties of a manifest
PublisherValues == {Undefined, Str(<<"p">>), Num(<<"4">>)}
NameValues == {Undefined, Str(<<"n">>)}
EnginesValues ==
    {Undefined, Null, Num(<<"0">>), Num(<<"5">>), Obj([node |-> Str(<<"*">>)]),
     Obj([vscode |-> Num(<<"1">>)]), ValidEngines}
ExtensionDependenciesValues ==
    {Undefined, Arr(<<Str(<<"d">>)>>), Arr(<<Str(<<"d">>), Num(<<"2">>)>>), Str(<<"d">>)}
ActivationEventsValues ==
    {Undefined, Arr(<<>>), Arr(<<Event1>>), Arr(<<Event1, Num(<<"3">>)>>), Null}
MainValues ==
    {Undefined, Str(<<>>), Str(<<".", "/", "main">>), Str(<<".", ".", "/", "x">>),
     Str(<<".", ".", "/", "a", "b", "/", "x">>), Num(<<"1">>)}

\* the manifests given to the validator: every combination of the values
\* above (a property with the value undefined is a property left out), a
\* missing manifest, and the folder the manifest was found in
Manifests ==
    {[extensionFolderPath |-> <<"/", "ext", "/", "a">>, pluginDescription |-> d] :
        d \in {Null, Undefined} \cup
              {Obj([publisher |-> p, name |-> n, engines |-> e,
                    extensionDependencies |-> x, activationEvents |-> a, main |-> m]) :
                  p \in PublisherValues, n \in NameValues, e \in EnginesValues,
                  x \in ExtensionDependenciesValues, a \in ActivationEventsValues,
                  m \in MainValues}}

\* Descriptions are objects: batches, the registry and the users given to
\* handlers hold references to them.  A reference is the name of the
\* object; "null" is the missing entry.
NullRef == "null"
Descriptions == {"A", "A2", "B", "Bad", NullRef}

\* the object a reference points to
Deref(ref) ==
    CASE ref = "A" -> PluginA
      [] ref = "A2" -> PluginA2
      [] ref = "B" -> PluginB
      [] ref = "Bad" -> PluginBad
      [] OTHER -> Null

\* every batch of at most MaxBatchLen entries; a missing entry comes last,
\* because registerPlugins reads no entry behind it
Batches ==
    {b \in UNION {[1..n -> Descriptions] : n \in 0..MaxBatchLen} :
        \A i \in 1..(Len(b) - 1) : b[i] # NullRef}

\* the batches registered while extension points are wired: single plugins,
\* a repeated id, two plugins with distinct ids one of which is an invalid
\* manifest, a missing entry
WiringBatches ==
    {b \in {<<"A">>, <<"A2">>,
             <<"A", "A2">>, <<"Bad", "B">>, <<"B", NullRef>>} : Len(b) <= MaxBatchLen}

\* the handler the owner of an extension point binds to it, and the one a
\* second setHandler call on the point passes
OwnHandler(name) == IF name = "commands" THEN "h1" ELSE "h2"
OtherHandler(name) == IF name = "commands" THEN "h3" ELSE "h1"

(***************************************************************************)
(* The registry.  A registry state is a record of the fields of            *)
(* PluginsRegistryImpl and of what the calls so far did to the outside:    *)
(*   pluginsMap       id -> description                                    *)
(*   pluginsArr       the descriptions in registration order               *)
(*   activationMap    activation event -> descriptions, in push order      *)
(*   pointListeners   the registered point listener entries                *)
(*   extensionPoints  the ExtensionPoint objects, in key insertion order   *)
(*                    (the order Object.keys enumerates them)              *)
(*   schemaProperties schema.properties.contributes.properties             *)
(*   oneTimeActivationEventListeners                                       *)
(*                    activation event -> the listeners registered for it; *)
(*                    each carries the number of its registration          *)
(*   activationLog    every registerOneTimeActivationEventListener call,   *)
(*                    triggerActivationEventListeners call and listener    *)
(*                    invocation, in the order they happened               *)
(*   calls            every invocation of an extension point handler       *)
(*   consoleErrors    the ids console.error was called for                 *)
(*   unexpectedErrors how often Errors.onUnexpectedError was called        *)
(***************************************************************************)
\* this._handler = null
NoHandler == "null"

\* this._collector = null; a PluginsMessageForwarder is named by the number
\* of the handleExtensionPoints call that created it, which is also the
\* name of the message handler (sink) it forwards to
NoCollector == 0

\* the handlers given to setHandler.  A handler is a callback; what matters
\* of it is whether it throws and what it calls in the registry:
\*   h1 returns; h2 and h3 throw after they have seen their users
\*   r1 calls registerPlugins(ReentrantBatch) the first time it is invoked
\*   r2 calls setHandler(h1) on the other extension point, if that point is
\*      registered, the first time it is invoked
Handlers == {"h1", "h2", "h3", "r1", "r2", "w1"}
ThrowingHandlers == {"h2", "h3"}
ReentrantHandlers == {"r1", "r2"}

\* the batch r1 registers
ReentrantBatch == <<"A2">>

\* the extension point r2 binds a handler to, when r2 is the handler of name
OtherPoint(name) == IF name = "commands" THEN "languages" ELSE "commands"

EmptyMap == [k \in {} |-> NullRef]

\* map[key] = value
Put(map, key, value) ==
    [k \in DOMAIN map \cup {key} |-> IF k = key THEN value ELSE map[k]]

\* delete map[key]
Delete(map, key) == [k \in DOMAIN map \ {key} |-> map[k]]

\* new ExtensionPoint(name, registry)
NewExtensionPoint(name) ==
    [name |-> name, handler |-> NoHandler, collector |-> NoCollector]

\* the position of the extension point called name, or 0
PointIndex(R, name) ==
    IF \E i \in 1..Len(R.extensionPoints) : R.extensionPoints[i].name = name
    THEN CHOOSE i \in 1..Len(R.extensionPoints) : R.extensionPoints[i].name = name
    ELSE 0

\* this._extensionPoints[name]
PointOf(R, name) == R.extensionPoints[PointIndex(R, name)]

\* PluginsRegistryImpl._filterWithExtPoint(input, point)
filterWithExtPoint(input, point) ==
    LET Contributes(desc) ==
            /\ Truthy(Get(Deref(desc), "contributes"))
            /\ HasOwnProperty(Get(Deref(desc), "contributes").val, point)
    IN SelectSeq(input, Contributes)

\* Arrays are objects as well: who is handed an array holds a reference to
\* it and can change it.  The registry keeps the arrays "pluginsArr" and,
\* under the key of each activation event, the array of that event in
\* activationMap; every other array is named OwnArray and carries its
\* elements.
OwnArray == "own"

\* array.slice(0): a new array with the elements of array
slice(elements) ==
    [array |-> OwnArray, elements |-> SubSeq(elements, 1, Len(elements))]

\* the elements of the array arr refers to
Elements(R, arr) ==
    IF arr.array = OwnArray THEN arr.elements
    ELSE IF arr.array = "pluginsArr" THEN R.pluginsArr
    ELSE R.activationMap[arr.array]

\* getAllPluginDescriptions returning this._pluginsArr itself
getAllPluginDescriptions_Live(R) ==
    [array |-> "pluginsArr", elements |-> R.pluginsArr]

\* getAllPluginDescriptions(): this._pluginsArr.slice(0)
getAllPluginDescriptions(R) == slice(R.pluginsArr)

\* getPluginDescriptionsForActivationEvent(activationEvent)
getPluginDescriptionsForActivationEvent(R, activationEvent) ==
    IF ~HasOwnProperty(R.activationMap, activationEvent)
    THEN [array |-> OwnArray, elements |-> <<>>]
    ELSE slice(R.activationMap[activationEvent])

\* getPluginDescription(pluginId)
getPluginDescription(R, pluginId) ==
    IF ~HasOwnProperty(R.pluginsMap, pluginId) THEN NullRef
    ELSE R.pluginsMap[pluginId]

(***************************************************************************)
(* The message collectors.  A message is any JavaScript value; the sink of *)
(* a PluginsMessageForwarder is named by the number of the                 *)
(* handleExtensionPoints call that passed it, and each of its invocations  *)
(* is recorded in sinkCalls.                                               *)
(***************************************************************************)
\* String(e)
String(e) ==
    CASE e.type \in {"string", "number"} -> e.val
      [] e.type = "undefined" -> <<"undefined">>
      [] e.type = "null" -> <<"null">>
      [] OTHER -> <<"[object Object]">>

\* the methods of a collector and the severity each one writes with
Methods == {"error", "warn", "info"}

\* PluginsMessageForwarder._ensureString(e)
ForwarderEnsureString(e) ==
    IF Truthy(e) /\ Truthy(Get(e, "message")) /\ Truthy(Get(e, "stack"))
    THEN String(Get(e, "message")) \o <<"\n", "\n">> \o String(Get(e, "stack"))
    ELSE String(e)

\* PluginsMessageForwarder._pushMessage(type, source, message), handler
\* being this._handler: the invocations of the sinks after the call
ForwarderPushMessage(sunk, handler, type, source, message) ==
    Append(sunk, [sink |-> handler, type |-> type, source |-> source,
                  message |-> ForwarderEnsureString(message)])

\* PluginsMessageForwarder.error, warn and info (source, message)
ForwarderWrite(sunk, handler, method, source, message) ==
    CASE method = "error" -> ForwarderPushMessage(sunk, handler, "Error", source, message)
      [] method = "warn" -> ForwarderPushMessage(sunk, handler, "Warning", source, message)
      [] method = "info" -> ForwarderPushMessage(sunk, handler, "Info", source, message)

\* PluginsMessageCollector._ensureString(e)
CollectorEnsureString(e) ==
    IF Truthy(e) /\ Truthy(Get(e, "message")) /\ Truthy(Get(e, "stack"))
    THEN String(Get(e, "message")) \o <<"\n", "\n">> \o String(Get(e, "stack"))
    ELSE String(e)

\* _pushMessage putting the message at the front of the list
CollectorPushMessage_Front(list, type, source, message) ==
    <<[type |-> type, message |-> CollectorEnsureString(message),
       source |-> source]>> \o list

\* PluginsMessageCollector._pushMessage(type, source, message): this._messages
\* after the call
CollectorPushMessage(list, type, source, message) ==
    Append(list, [type |-> type, message |-> CollectorEnsureString(message),
                  source |-> source])

\* PluginsMessageCollector.error, warn and info (source, message)
CollectorWrite(list, method, source, message) ==
    CASE method = "error" -> CollectorPushMessage(list, "Error", source, message)
      [] method = "warn" -> CollectorPushMessage(list, "Warning", source, message)
      [] method = "info" -> CollectorPushMessage(list, "Info", source, message)

\* scopeTo(source) of either collector: new ScopedMessageCollector(source, this)
scopeTo(actual, source) == [scope |-> source, actual |-> actual]

\* ScopedMessageCollector.error, warn and info (message) on a collector
\* scoped from a PluginsMessageForwarder
ScopedForwarderWrite(sunk, collector, method, message) ==
    ForwarderWrite(sunk, collector.actual, method, collector.scope, message)

\* ScopedMessageCollector.error, warn and info (message) on a collector
\* scoped from a PluginsMessageCollector
ScopedCollectorWrite(list, collector, method, message) ==
    CollectorWrite(list, method, collector.scope, message)

\* the handler that reports on every user through the collector of the
\* user: an error on the first, a warning on the second, an info on the
\* third, and so on
WritingHandlers == {"w1"}

\* the method w1 calls on the collector of its i-th user
MethodFor(i) == <<"error", "warn", "info">>[((i - 1) % 3) + 1]

\* w1 on users, from the i-th on: the invocations of the sinks after it
RECURSIVE writeToUsers(_, _, _)
writeToUsers(sunk, users, i) ==
    IF i > Len(users) THEN sunk
    ELSE writeToUsers(ScopedForwarderWrite(sunk, users[i].collector, MethodFor(i),
                                           Str(<<users[i].value>>)),
                      users, i + 1)

RECURSIVE registerPlugins(_, _)
RECURSIVE setHandler(_, _, _)

\* this._handler(users) for the point called name, the invocation being
\* recorded in R.calls already: the state after the handler returned or
\* threw, and whether it threw
runHandler(R, handler, name) ==
    LET first == Len(SelectSeq(R.calls, LAMBDA call : call.handler = handler)) = 1
    IN CASE handler = "r1" /\ first -> registerPlugins(R, ReentrantBatch)
         [] handler = "r2" /\ first /\ PointIndex(R, OtherPoint(name)) # 0 ->
               setHandler(R, OtherPoint(name), "h1")
         [] handler \in WritingHandlers ->
               [R |-> [R EXCEPT !.sinkCalls =
                          writeToUsers(@, Last(R.calls).users, 1)],
                threw |-> FALSE]
         [] OTHER -> [R |-> R, threw |-> handler \in ThrowingHandlers]

\* the listener calling the handler once for each description, with a list
\* of one user
RECURSIVE PointListener_PerDescription(_, _, _)
PointListener_PerDescription(R, name, descriptions) ==
    IF descriptions = <<>> THEN [R |-> R, threw |-> FALSE]
    ELSE LET point == PointOf(R, name)
             desc == Head(descriptions)
             user == [description |-> desc,
                      value |-> Get(Deref(desc), "contributes").val[name],
                      collector |-> [scope |-> Deref(desc).val.extensionFolderPath,
                                     actual |-> point.collector]]
             call == [extensionPoint |-> name, handler |-> point.handler,
                      users |-> <<user>>]
             rest == PointListener_PerDescription(
                         [R EXCEPT !.calls = Append(@, call)], name, Tail(descriptions))
         IN [R |-> rest.R, threw |-> point.handler \in ThrowingHandlers]

\* the listener scoping the collector of every user to the folder of the
\* first description
PointListener_FirstScope(R, name, descriptions) ==
    LET point == PointOf(R, name)
        users == [i \in 1..Len(descriptions) |->
                    [description |-> descriptions[i],
                     value |-> Get(Deref(descriptions[i]), "contributes").val[name],
                     collector |-> scopeTo(point.collector,
                                           Deref(descriptions[1]).val.extensionFolderPath)]]
        call == [extensionPoint |-> name, handler |-> point.handler, users |-> users]
    IN runHandler([R EXCEPT !.calls = Append(@, call)], point.handler, name)

\* the listener ExtensionPoint._handle registers for the point called name,
\* invoked with descriptions: it maps them to users and calls this._handler.
\* The result is the state after the handler returned or threw, and whether
\* it threw.
PointListener(R, name, descriptions) ==
    LET point == PointOf(R, name)
        users == [i \in 1..Len(descriptions) |->
                    [description |-> descriptions[i],
                     value |-> Get(Deref(descriptions[i]), "contributes").val[name],
                     collector |-> scopeTo(point.collector,
                                           Deref(descriptions[i]).val.extensionFolderPath)]]
        call == [extensionPoint |-> name, handler |-> point.handler, users |-> users]
    IN runHandler([R EXCEPT !.calls = Append(@, call)], point.handler, name)

\* _triggerPointListener calling the listener for an empty list as well
triggerPointListener_NoEmptyCheck(R, handler, desc) ==
    LET done == PointListener(R, handler.extensionPoint, desc)
    IN IF done.threw
       THEN [done.R EXCEPT !.unexpectedErrors = @ + 1]
       ELSE done.R

\* _triggerPointListener(handler, desc)
triggerPointListener(R, handler, desc) ==
    IF Len(desc) = 0 THEN R
    ELSE LET done == PointListener(R, handler.extensionPoint, desc)
         IN IF done.threw
            THEN [done.R EXCEPT !.unexpectedErrors = @ + 1]
            ELSE done.R

\* registerPointListener without the replay of the stored descriptions
registerPointListener_NoReplay(R, point) ==
    [R EXCEPT !.pointListeners = Append(@, [extensionPoint |-> point])]

\* registerPointListener(point, handler)
registerPointListener(R, point) ==
    LET entry == [extensionPoint |-> point]
        pushed == [R EXCEPT !.pointListeners = Append(@, entry)]
    IN triggerPointListener(pushed, entry,
           filterWithExtPoint(getAllPluginDescriptions(pushed).elements, point))

\* _handle without the test for a collector
PointHandle_NoCollectorCheck(R, name) ==
    LET point == PointOf(R, name)
    IN IF point.handler = NoHandler THEN R
       ELSE registerPointListener(R, name)

\* ExtensionPoint._handle()
PointHandle(R, name) ==
    LET point == PointOf(R, name)
    IN IF point.handler = NoHandler \/ point.collector = NoCollector THEN R
       ELSE registerPointListener(R, name)

\* setHandler without the check for a handler that is already set
setHandler_Overwrite(R, name, handler) ==
    LET i == PointIndex(R, name)
    IN [R |-> PointHandle([R EXCEPT !.extensionPoints[i].handler = handler], name),
        threw |-> FALSE]

\* ExtensionPoint.setHandler(handler): the state after the call and whether
\* the call threw
setHandler(R, name, handler) ==
    LET i == PointIndex(R, name)
    IN IF R.extensionPoints[i].handler # NoHandler
       THEN [R |-> R, threw |-> TRUE]
       ELSE [R |-> PointHandle([R EXCEPT !.extensionPoints[i].handler = handler], name),
             threw |-> FALSE]

\* ExtensionPoint.handle(collector)
handle(R, name, collector) ==
    LET i == PointIndex(R, name)
    IN PointHandle([R EXCEPT !.extensionPoints[i].collector = collector], name)

\* registerExtensionPoint without the duplicate check: the name is bound to
\* a new ExtensionPoint
registerExtensionPoint_Overwrite(R, extensionPoint, jsonSchema) ==
    LET i == PointIndex(R, extensionPoint)
    IN [R |-> [R EXCEPT
                 !.extensionPoints =
                     IF i = 0 THEN Append(@, NewExtensionPoint(extensionPoint))
                     ELSE [@ EXCEPT ![i] = NewExtensionPoint(extensionPoint)],
                 !.schemaProperties = Put(@, extensionPoint, jsonSchema)],
        threw |-> FALSE]

\* registerExtensionPoint(extensionPoint, jsonSchema)
registerExtensionPoint(R, extensionPoint, jsonSchema) ==
    IF PointIndex(R, extensionPoint) # 0
    THEN [R |-> R, threw |-> TRUE]
    ELSE [R |-> [R EXCEPT
                   !.extensionPoints = Append(@, NewExtensionPoint(extensionPoint)),
                   !.schemaProperties = Put(@, extensionPoint, jsonSchema)],
          threw |-> FALSE]

\* handleExtensionPoints(messageHandler): the forEach over Object.keys, from
\* the i-th extension point on
RECURSIVE handleFrom(_, _, _)
handleFrom(R, collector, i) ==
    IF i > Len(R.extensionPoints) THEN R
    ELSE handleFrom(handle(R, R.extensionPoints[i].name, collector), collector, i + 1)

handleExtensionPoints(R, messageHandler) == handleFrom(R, messageHandler, 1)

\* registerPlugins, lines 356-360: push pluginDescription onto the sequence
\* of each of its activation events, from the j-th event on
RECURSIVE pushActivationEvents(_, _, _)
pushActivationEvents(activationMap, pluginDescription, j) ==
    LET activationEvents == Get(Deref(pluginDescription), "activationEvents").val
    IN IF j > Len(activationEvents) THEN activationMap
       ELSE LET activationEvent == EventKey(activationEvents[j])
                before == IF HasOwnProperty(activationMap, activationEvent)
                          THEN activationMap[activationEvent] ELSE <<>>
            IN pushActivationEvents(
                   Put(activationMap, activationEvent, Append(before, pluginDescription)),
                   pluginDescription, j + 1)

\* insertPlugin putting the description at the front of the master list
insertPlugin_Front(R, pluginDescription) ==
    [R EXCEPT
       !.pluginsMap = Put(@, Deref(pluginDescription).val.id, pluginDescription),
       !.pluginsArr = <<pluginDescription>> \o @,
       !.activationMap =
           IF IsArray(Get(Deref(pluginDescription), "activationEvents"))
           THEN pushActivationEvents(@, pluginDescription, 1)
           ELSE @]

\* insertPlugin leaving the master list as it is
insertPlugin_MapOnly(R, pluginDescription) ==
    [R EXCEPT
       !.pluginsMap = Put(@, Deref(pluginDescription).val.id, pluginDescription),
       !.activationMap =
           IF IsArray(Get(Deref(pluginDescription), "activationEvents"))
           THEN pushActivationEvents(@, pluginDescription, 1)
           ELSE @]

\* registerPlugins, lines 352-361: insert one description into the indexes
insertPlugin(R, pluginDescription) ==
    [R EXCEPT
       !.pluginsMap = Put(@, Deref(pluginDescription).val.id, pluginDescription),
       !.pluginsArr = Append(@, pluginDescription),
       !.activationMap =
           IF IsArray(Get(Deref(pluginDescription), "activationEvents"))
           THEN pushActivationEvents(@, pluginDescription, 1)
           ELSE @]

\* the first loop without the check for an id that is already registered
RECURSIVE mergePlugins_NoDuplicateCheck(_, _, _)
mergePlugins_NoDuplicateCheck(R, pluginDescriptions, i) ==
    IF i > Len(pluginDescriptions) THEN [R |-> R, threw |-> FALSE]
    ELSE LET pluginDescription == pluginDescriptions[i]
         IN IF Deref(pluginDescription).type \in {"null", "undefined"}
            THEN [R |-> R, threw |-> TRUE]
            ELSE mergePlugins_NoDuplicateCheck(insertPlugin(R, pluginDescription),
                                               pluginDescriptions, i + 1)

\* the first loop stopping at the first id that is already registered
RECURSIVE mergePlugins_StopAtDuplicate(_, _, _)
mergePlugins_StopAtDuplicate(R, pluginDescriptions, i) ==
    IF i > Len(pluginDescriptions) THEN [R |-> R, threw |-> FALSE]
    ELSE LET pluginDescription == pluginDescriptions[i]
         IN IF Deref(pluginDescription).type \in {"null", "undefined"}
            THEN [R |-> R, threw |-> TRUE]
            ELSE IF HasOwnProperty(R.pluginsMap, Deref(pluginDescription).val.id)
            THEN [R |-> [R EXCEPT !.consoleErrors =
                                      Append(@, Deref(pluginDescription).val.id)],
                  threw |-> FALSE]
            ELSE mergePlugins_StopAtDuplicate(insertPlugin(R, pluginDescription),
                                              pluginDescriptions, i + 1)

\* registerPlugins, lines 343-362: the first loop, from the i-th description
\* on.  Reading the id of a missing entry (null) throws a TypeError, which
\* ends the call.
RECURSIVE mergePlugins(_, _, _)
mergePlugins(R, pluginDescriptions, i) ==
    IF i > Len(pluginDescriptions) THEN [R |-> R, threw |-> FALSE]
    ELSE LET pluginDescription == pluginDescriptions[i]
         IN IF Deref(pluginDescription).type \in {"null", "undefined"}
            THEN [R |-> R, threw |-> TRUE]
            ELSE IF HasOwnProperty(R.pluginsMap, Deref(pluginDescription).val.id)
            THEN mergePlugins(
                     [R EXCEPT !.consoleErrors = Append(@, Deref(pluginDescription).val.id)],
                     pluginDescriptions, i + 1)
            ELSE mergePlugins(insertPlugin(R, pluginDescription),
                              pluginDescriptions, i + 1)

\* the second loop ending at the first listener whose handler threw
RECURSIVE notifyPointListeners_StopAtThrow(_, _, _, _)
notifyPointListeners_StopAtThrow(R, pluginDescriptions, i, len) ==
    IF i > len THEN R
    ELSE LET listenerEntry == R.pointListeners[i]
             descriptions == filterWithExtPoint(pluginDescriptions,
                                                listenerEntry.extensionPoint)
             done == triggerPointListener(R, listenerEntry, descriptions)
         IN IF done.unexpectedErrors # R.unexpectedErrors THEN done
            ELSE notifyPointListeners_StopAtThrow(done, pluginDescriptions, i + 1, len)

\* registerPlugins, lines 364-368: the second loop, from the i-th of the
\* first len point listeners on
RECURSIVE notifyPointListeners(_, _, _, _)
notifyPointListeners(R, pluginDescriptions, i, len) ==
    IF i > len THEN R
    ELSE LET listenerEntry == R.pointListeners[i]
             descriptions == filterWithExtPoint(pluginDescriptions,
                                                listenerEntry.extensionPoint)
         IN notifyPointListeners(triggerPointListener(R, listenerEntry, descriptions),
                                 pluginDescriptions, i + 1, len)

\* registerPlugins(pluginDescriptions): the state after the call and whether
\* the call threw
registerPlugins(R, pluginDescriptions) ==
    LET merged == mergePlugins(R, pluginDescriptions, 1)
    IN IF merged.threw THEN merged
       ELSE [R |-> notifyPointListeners(merged.R, pluginDescriptions, 1,
                                        Len(merged.R.pointListeners)),
             threw |-> FALSE]

(***************************************************************************)
(* One-time activation event listeners.  A listener is a callback; what    *)
(* matters of it is what it does to the registry and whether it throws:    *)
(*   l1 returns                                                            *)
(*   l2 throws                                                             *)
(*   l3 registers l1 for the event it was registered for, then returns     *)
(*   l4 triggers the event it was registered for, then returns             *)
(***************************************************************************)
Listeners == {"l1", "l2", "l3", "l4"}

\* an entry of the activation log
LogEntry(op, event, listener, registration, trigger) ==
    [op |-> op, event |-> event, listener |-> listener,
     registration |-> registration, trigger |-> trigger]

\* how many entries of log are of the kind op
Count(log, op) == Len(SelectSeq(log, LAMBDA entry : entry.op = op))

\* registerOneTimeActivationEventListener putting the listener in front
registerOneTimeActivationEventListener_Prepend(R, activationEvent, listener) ==
    LET registration == Count(R.activationLog, "register") + 1
        queue == IF HasOwnProperty(R.oneTimeActivationEventListeners, activationEvent)
                 THEN R.oneTimeActivationEventListeners[activationEvent]
                 ELSE <<>>
        entry == [listener |-> listener, registration |-> registration]
    IN [R EXCEPT
          !.oneTimeActivationEventListeners = Put(@, activationEvent, <<entry>> \o queue),
          !.activationLog = Append(@, LogEntry("register", activationEvent, listener,
                                               registration, 0))]

\* registerOneTimeActivationEventListener(activationEvent, listener)
registerOneTimeActivationEventListener(R, activationEvent, listener) ==
    LET registration == Count(R.activationLog, "register") + 1
        queue == IF HasOwnProperty(R.oneTimeActivationEventListeners, activationEvent)
                 THEN R.oneTimeActivationEventListeners[activationEvent]
                 ELSE <<>>
        entry == [listener |-> listener, registration |-> registration]
    IN [R EXCEPT
          !.oneTimeActivationEventListeners = Put(@, activationEvent, Append(queue, entry)),
          !.activationLog = Append(@, LogEntry("register", activationEvent, listener,
                                               registration, 0))]

RECURSIVE triggerActivationEventListeners(_, _)

\* listener(): the state after the listener returned or threw, and whether
\* it threw
runListener(R, listener, activationEvent) ==
    CASE listener = "l2" -> [R |-> R, threw |-> TRUE]
      [] listener = "l3" ->
            [R |-> registerOneTimeActivationEventListener(R, activationEvent, "l1"),
             threw |-> FALSE]
      [] listener = "l4" -> triggerActivationEventListeners(R, activationEvent)
      [] OTHER -> [R |-> R, threw |-> FALSE]

\* the loop of triggerActivationEventListeners leaving at the first listener
\* that throws: the error is not caught
RECURSIVE fireListeners_NoCatch(_, _, _, _, _)
fireListeners_NoCatch(R, activationEvent, listeners, i, trigger) ==
    IF i > Len(listeners) THEN [R |-> R, threw |-> FALSE]
    ELSE LET invoked == [R EXCEPT !.activationLog =
                            Append(@, LogEntry("invoke", activationEvent,
                                               listeners[i].listener,
                                               listeners[i].registration, trigger))]
             done == runListener(invoked, listeners[i].listener, activationEvent)
         IN IF done.threw THEN done
            ELSE fireListeners_NoCatch(done.R, activationEvent, listeners, i + 1, trigger)

\* the loop going on with the listeners registered while it ran
RECURSIVE fireListeners_Live(_, _, _, _, _)
fireListeners_Live(R, activationEvent, listeners, i, trigger) ==
    IF i > Len(listeners)
    THEN IF HasOwnProperty(R.oneTimeActivationEventListeners, activationEvent)
         THEN fireListeners_Live(
                  [R EXCEPT !.oneTimeActivationEventListeners = Delete(@, activationEvent)],
                  activationEvent,
                  listeners \o R.oneTimeActivationEventListeners[activationEvent],
                  i, trigger)
         ELSE [R |-> R, threw |-> FALSE]
    ELSE LET invoked == [R EXCEPT !.activationLog =
                            Append(@, LogEntry("invoke", activationEvent,
                                               listeners[i].listener,
                                               listeners[i].registration, trigger))]
             done == runListener(invoked, listeners[i].listener, activationEvent)
             caught == IF done.threw
                       THEN [done.R EXCEPT !.unexpectedErrors = @ + 1]
                       ELSE done.R
         IN fireListeners_Live(caught, activationEvent, listeners, i + 1, trigger)

\* triggerActivationEventListeners, lines 407-414: the loop over the detached
\* listeners, from the i-th on; trigger numbers the call the loop belongs to
RECURSIVE fireListeners(_, _, _, _, _)
fireListeners(R, activationEvent, listeners, i, trigger) ==
    IF i > Len(listeners) THEN [R |-> R, threw |-> FALSE]
    ELSE LET invoked == [R EXCEPT !.activationLog =
                            Append(@, LogEntry("invoke", activationEvent,
                                               listeners[i].listener,
                                               listeners[i].registration, trigger))]
             done == runListener(invoked, listeners[i].listener, activationEvent)
             caught == IF done.threw
                       THEN [done.R EXCEPT !.unexpectedErrors = @ + 1]
                       ELSE done.R
         IN fireListeners(caught, activationEvent, listeners, i + 1, trigger)

\* detachListeners deleting the entry of the activation index as well
detachListeners_BothMaps(R, activationEvent) ==
    [listeners |-> R.oneTimeActivationEventListeners[activationEvent],
     R |-> [R EXCEPT !.oneTimeActivationEventListeners = Delete(@, activationEvent),
                     !.activationMap = Delete(@, activationEvent)]]

\* detachListeners discarding the queues of all events
detachListeners_All(R, activationEvent) ==
    [listeners |-> R.oneTimeActivationEventListeners[activationEvent],
     R |-> [R EXCEPT !.oneTimeActivationEventListeners = EmptyMap]]

\* triggerActivationEventListeners, lines 404-405: the listeners detached and
\* the registry without their queue
detachListeners(R, activationEvent) ==
    [listeners |-> R.oneTimeActivationEventListeners[activationEvent],
     R |-> [R EXCEPT !.oneTimeActivationEventListeners = Delete(@, activationEvent)]]

\* triggerActivationEventListeners putting the listeners back after the loop
triggerActivationEventListeners_Requeue(R, activationEvent) ==
    LET trigger == Count(R.activationLog, "trigger") + 1
        started == [R EXCEPT !.activationLog =
                       Append(@, LogEntry("trigger", activationEvent, "", 0, trigger))]
    IN IF HasOwnProperty(R.oneTimeActivationEventListeners, activationEvent)
       THEN LET detached == detachListeners(started, activationEvent)
                done == fireListeners(detached.R, activationEvent,
                                      detached.listeners, 1, trigger)
                queue == IF HasOwnProperty(done.R.oneTimeActivationEventListeners,
                                           activationEvent)
                         THEN done.R.oneTimeActivationEventListeners[activationEvent]
                         ELSE <<>>
            IN [R |-> [done.R EXCEPT !.oneTimeActivationEventListeners =
                          Put(@, activationEvent, detached.listeners \o queue)],
                threw |-> done.threw]
       ELSE [R |-> started, threw |-> FALSE]

\* triggerActivationEventListeners(activationEvent): the state after the call
\* and whether the call threw
triggerActivationEventListeners(R, activationEvent) ==
    LET trigger == Count(R.activationLog, "trigger") + 1
        started == [R EXCEPT !.activationLog =
                       Append(@, LogEntry("trigger", activationEvent, "", 0, trigger))]
    IN IF HasOwnProperty(R.oneTimeActivationEventListeners, activationEvent)
       THEN LET detached == detachListeners(started, activationEvent)
            IN fireListeners(detached.R, activationEvent, detached.listeners, 1, trigger)
       ELSE [R |-> started, threw |-> FALSE]

(***************************************************************************)
(* State: the fields of the registry, the effects observed so far, and    *)
(* the calls made (batches, handleCalls, lastOp).                          *)
(***************************************************************************)
VARIABLES pluginsMap, pluginsArr, activationMap, pointListeners,
          extensionPoints, schemaProperties, oneTimeActivationEventListeners,
          activationLog, calls, consoleErrors, unexpectedErrors,
          batches, handleCalls, activationCalls, lastOp,
          manifest, verdict,
          sinkCalls, returned, held, modified, mutations, messages, writes,
          outputListeners, disposers, disposeCalls, received,
          child, cloneRun, parser

vars == <<pluginsMap, pluginsArr, activationMap, pointListeners,
          extensionPoints, schemaProperties, oneTimeActivationEventListeners,
          activationLog, calls, consoleErrors, unexpectedErrors,
          batches, handleCalls, activationCalls, lastOp,
          manifest, verdict,
          sinkCalls, returned, held, modified, mutations, messages, writes,
          outputListeners, disposers, disposeCalls, received,
          child, cloneRun, parser>>

\* the manifest handed to isValidPluginDescription and what it answered
validatorVars == <<manifest, verdict>>

\* what a caller of the getters holds (the arrays returned and the
\* descriptions held), the descriptions it modified and the number of changes
\* it made
callerVars == <<returned, held, modified, mutations>>

\* the list of a PluginsMessageCollector and the calls made on the two
\* message collectors
collectorVars == <<messages, writes>>

\* the output listeners of a Git, the functions onOutput returned, the calls
\* made on them and what the listeners were given
outputVars == <<outputListeners, disposers, disposeCalls, received>>

\* the child process of a clone and the progress of the clone
cloneVars == <<child, cloneRun>>

\* the Git, a clone and the status parser of a Repository
gitVars == <<outputVars, cloneVars, parser>>

\* the fields of the registry and the effects observed
registryFields == <<pluginsMap, pluginsArr, activationMap, pointListeners,
                    extensionPoints, schemaProperties,
                    oneTimeActivationEventListeners, activationLog, calls,
                    consoleErrors, unexpectedErrors, sinkCalls>>

\* no answer yet
NoVerdict == [done |-> FALSE, ok |-> FALSE, notices |-> <<>>]

\* the registry state as the record the operators work on
Registry ==
    [pluginsMap |-> pluginsMap, pluginsArr |-> pluginsArr,
     activationMap |-> activationMap, pointListeners |-> pointListeners,
     extensionPoints |-> extensionPoints, schemaProperties |-> schemaProperties,
     oneTimeActivationEventListeners |-> oneTimeActivationEventListeners,
     activationLog |-> activationLog,
     calls |-> calls, consoleErrors |-> consoleErrors,
     unexpectedErrors |-> unexpectedErrors, sinkCalls |-> sinkCalls]

\* the registry state after a call is R
Becomes(R) ==
    /\ pluginsMap' = R.pluginsMap
    /\ pluginsArr' = R.pluginsArr
    /\ activationMap' = R.activationMap
    /\ pointListeners' = R.pointListeners
    /\ extensionPoints' = R.extensionPoints
    /\ schemaProperties' = R.schemaProperties
    /\ oneTimeActivationEventListeners' = R.oneTimeActivationEventListeners
    /\ activationLog' = R.activationLog
    /\ calls' = R.calls
    /\ consoleErrors' = R.consoleErrors
    /\ unexpectedErrors' = R.unexpectedErrors
    /\ sinkCalls' = R.sinkCalls

\* the record of a call: the method, its extension point (when it is about
\* one) and whether it threw
Op(method, point, threw) ==
    [method |-> method, point |-> point, threw |-> threw]

\* new Git(options): no output listener; onOutput and the functions it
\* returned have not been called and nothing was logged
GitConstructed ==
    /\ outputListeners = <<>>
    /\ disposers = <<>>
    /\ disposeCalls = <<>>
    /\ received = <<>>

\* no child process was spawned
NoChild ==
    [event |-> "none", exitCode |-> 0, stdout |-> "", stderr |-> "",
     leavesFolder |-> FALSE]

\* clone was not called
NoClone ==
    [gitPath |-> "git", delError |-> FALSE, pc |-> "idle", folder |-> FALSE,
     execError |-> "none", promise |-> [state |-> "none", value |-> "none"]]

\* getStatus was not called
NoStatus ==
    [status |-> <<>>, i |-> 0, start |-> 0, current |-> <<>>, result |-> <<>>,
     pc |-> "idle"]

\* a Git on which nothing runs
GitIdle ==
    /\ GitConstructed
    /\ child = NoChild
    /\ cloneRun = NoClone
    /\ parser = NoStatus

\* new PluginsRegistryImpl()
Constructed ==
    /\ pluginsMap = EmptyMap
    /\ pluginsArr = <<>>
    /\ activationMap = EmptyMap
    /\ pointListeners = <<>>
    /\ extensionPoints = <<>>
    /\ schemaProperties = EmptyMap
    /\ oneTimeActivationEventListeners = EmptyMap
    /\ activationLog = <<>>
    /\ calls = <<>>
    /\ consoleErrors = <<>>
    /\ unexpectedErrors = 0
    /\ batches = <<>>
    /\ handleCalls = 0
    /\ activationCalls = 0
    /\ lastOp = Op("new", "", FALSE)
    /\ sinkCalls = <<>>
    /\ returned = <<>>
    /\ held = {}
    /\ modified = {}
    /\ mutations = 0
    /\ messages = <<>>
    /\ writes = <<>>

\* a new registry; no manifest is being validated
Init ==
    /\ Constructed
    /\ manifest = [extensionFolderPath |-> <<>>, pluginDescription |-> Undefined]
    /\ verdict = NoVerdict
    /\ GitIdle

\* a caller registers a batch pluginDescriptions drawn from batchSet
RegisterPluginsFrom(batchSet) ==
    /\ Len(batches) < MaxBatches
    /\ \E pluginDescriptions \in batchSet :
          LET done == registerPlugins(Registry, pluginDescriptions)
          IN /\ Becomes(done.R)
             /\ batches' = Append(batches, pluginDescriptions)
             /\ lastOp' = Op("registerPlugins", "", done.threw)
    /\ UNCHANGED <<handleCalls, activationCalls,
                   validatorVars, callerVars, collectorVars,
                   gitVars>>

\* a batch arrives while the extension points are being wired
RegisterPlugins == RegisterPluginsFrom(WiringBatches)

\* any batch arrives
RegisterAnyPlugins == RegisterPluginsFrom(Batches)

\* a host component registers an extension point.  Schemas are opaque to
\* the registry: a name is registered with the schema of that name, and
\* registered again with another one.
RegisterExtensionPoint ==
    /\ \E extensionPoint \in PointNames :
          LET jsonSchema == IF PointIndex(Registry, extensionPoint) = 0
                            THEN "schema1" ELSE "schema2"
              done == registerExtensionPoint(Registry, extensionPoint, jsonSchema)
          IN /\ Becomes(done.R)
             /\ lastOp' = Op("registerExtensionPoint", extensionPoint, done.threw)
    /\ UNCHANGED <<batches, handleCalls, activationCalls,
                   validatorVars, callerVars, collectorVars,
                   gitVars>>

\* setHandler is called on a registered extension point: by its owner, and
\* on a point that has a handler by someone else
SetHandler ==
    /\ \E i \in 1..Len(extensionPoints) :
          LET name == extensionPoints[i].name
              handler == IF extensionPoints[i].handler = NoHandler
                         THEN OwnHandler(name) ELSE OtherHandler(name)
              done == setHandler(Registry, name, handler)
          IN /\ Becomes(done.R)
             /\ lastOp' = Op("setHandler", name, done.threw)
    /\ UNCHANGED <<batches, handleCalls, activationCalls,
                   validatorVars, callerVars, collectorVars,
                   gitVars>>

\* the host calls handleExtensionPoints with a fresh message handler
HandleExtensionPoints ==
    /\ handleCalls < MaxHandleCalls
    /\ Becomes(handleExtensionPoints(Registry, handleCalls + 1))
    /\ handleCalls' = handleCalls + 1
    /\ lastOp' = Op("handleExtensionPoints", "", FALSE)
    /\ UNCHANGED <<batches, activationCalls,
                   validatorVars, callerVars, collectorVars,
                   gitVars>>

Next ==
    \/ RegisterPlugins
    \/ RegisterExtensionPoint
    \/ SetHandler
    \/ HandleExtensionPoints

Spec == Init /\ [][Next]_vars

\* the store alone: batches of every shape, no extension point
NextStore == RegisterAnyPlugins

SpecStore == Init /\ [][NextStore]_vars

\* a component registers a one-time listener for an activation event, as
\* one of the first limit calls about one-time listeners
RegisterOneTimeActivationEventListenerUpTo(limit) ==
    /\ activationCalls < limit
    /\ \E activationEvent \in ActivationEvents, listener \in Listeners :
          Becomes(registerOneTimeActivationEventListener(Registry, activationEvent,
                                                         listener))
    /\ activationCalls' = activationCalls + 1
    /\ lastOp' = Op("registerOneTimeActivationEventListener", "", FALSE)
    /\ UNCHANGED <<batches, handleCalls,
                   validatorVars, callerVars, collectorVars,
                   gitVars>>

\* the plugin service triggers an activation event, as one of the first
\* limit calls about one-time listeners
TriggerActivationEventListenersUpTo(limit) ==
    /\ activationCalls < limit
    /\ \E activationEvent \in ActivationEvents :
          LET done == triggerActivationEventListeners(Registry, activationEvent)
          IN /\ Becomes(done.R)
             /\ lastOp' = Op("triggerActivationEventListeners", "", done.threw)
    /\ activationCalls' = activationCalls + 1
    /\ UNCHANGED <<batches, handleCalls,
                   validatorVars, callerVars, collectorVars,
                   gitVars>>

\* a component registers a one-time listener for an activation event
RegisterOneTimeActivationEventListener ==
    RegisterOneTimeActivationEventListenerUpTo(MaxActivationCalls)

\* the plugin service triggers an activation event
TriggerActivationEventListeners ==
    TriggerActivationEventListenersUpTo(MaxActivationCalls)

\* the owner of an extension point binds a handler that calls back into the
\* registry: r1 or r2 for commands, h1 for languages
SetReentrantHandler ==
    /\ \E i \in 1..Len(extensionPoints) :
          /\ extensionPoints[i].handler = NoHandler
          /\ \E handler \in IF extensionPoints[i].name = "commands"
                             THEN ReentrantHandlers ELSE {"h1"} :
                LET done == setHandler(Registry, extensionPoints[i].name, handler)
                IN /\ Becomes(done.R)
                   /\ lastOp' = Op("setHandler", extensionPoints[i].name, done.threw)
    /\ UNCHANGED <<batches, handleCalls, activationCalls,
                   validatorVars, callerVars, collectorVars,
                   gitVars>>

\* the wiring with handlers that call back into the registry
NextReentrant ==
    \/ RegisterPlugins
    \/ RegisterExtensionPoint
    \/ SetReentrantHandler
    \/ HandleExtensionPoints

SpecReentrant == Init /\ [][NextReentrant]_vars

\* the one-time listeners alone
NextActivation ==
    \/ RegisterOneTimeActivationEventListener
    \/ TriggerActivationEventListeners

SpecActivation == Init /\ [][NextActivation]_vars

\* a batch of one description arrives
RegisterOnePlugin == RegisterPluginsFrom({<<"A">>, <<"B">>})

\* the store next to the one-time listeners: descriptions that declare
\* activation events are registered while listeners for these events are
\* registered and triggered
NextIndependent ==
    \/ RegisterOnePlugin
    \/ RegisterOneTimeActivationEventListenerUpTo(MaxIndependentCalls)
    \/ TriggerActivationEventListenersUpTo(MaxIndependentCalls)

SpecIndependent == Init /\ [][NextIndependent]_vars

\* the validator is given one of the manifests
InitValidate ==
    /\ Constructed
    /\ manifest \in Manifests
    /\ verdict = NoVerdict
    /\ GitIdle

\* isValidPluginDescription is called on the manifest
Validate ==
    /\ ~verdict.done
    /\ LET result == isValidPluginDescription(manifest.extensionFolderPath,
                                              manifest.pluginDescription)
       IN verdict' = [done |-> TRUE, ok |-> result.ok, notices |-> result.notices]
    /\ UNCHANGED <<pluginsMap, pluginsArr, activationMap, pointListeners,
                   extensionPoints, schemaProperties,
                   oneTimeActivationEventListeners, activationLog, calls,
                   consoleErrors, unexpectedErrors, batches, handleCalls,
                   activationCalls, lastOp, manifest, sinkCalls, callerVars,
                   collectorVars, gitVars>>

NextValidate == Validate

\* the validator alone, on every manifest
SpecValidate == InitValidate /\ [][NextValidate]_vars

\* a batch of contributors arrives: to languages one by one, to commands
\* two at once
RegisterContributors == RegisterPluginsFrom({<<"A2">>, <<"B">>, <<"A", "Bad">>})

\* the owner of an extension point binds a handler that reports on its users
SetWritingHandler ==
    /\ \E i \in 1..Len(extensionPoints), handler \in WritingHandlers :
          /\ extensionPoints[i].handler = NoHandler
          /\ LET done == setHandler(Registry, extensionPoints[i].name, handler)
             IN /\ Becomes(done.R)
                /\ lastOp' = Op("setHandler", extensionPoints[i].name, done.threw)
    /\ UNCHANGED <<batches, handleCalls, activationCalls,
                   validatorVars, callerVars, collectorVars,
                   gitVars>>

\* the wiring with handlers that write to the collectors of their users
NextMessages ==
    \/ RegisterContributors
    \/ RegisterExtensionPoint
    \/ SetWritingHandler
    \/ HandleExtensionPoints

SpecMessages == Init /\ [][NextMessages]_vars

\* the sources and the messages the collectors are called with: strings, a
\* number, null, an error (message and stack) and an object without a stack
Sources == {<<"/", "ext", "/", "a">>, <<"/", "ext", "/", "b">>}
MessageValues ==
    {Str(<<"m">>), Str(<<>>), Num(<<"7">>), Null,
     Obj([message |-> Str(<<"oops">>), stack |-> Str(<<"at x">>)]),
     Obj([message |-> Str(<<"oops">>)])}

\* the sink the PluginsMessageForwarder was constructed with
TheSink == 1

\* error, warn or info (source, message) is called on a
\* PluginsMessageCollector and on a PluginsMessageForwarder
WriteDirect ==
    /\ Len(writes) < MaxWrites
    /\ \E method \in Methods, source \in Sources, message \in MessageValues :
          /\ messages' = CollectorWrite(messages, method, source, message)
          /\ Becomes([Registry EXCEPT !.sinkCalls =
                         ForwarderWrite(@, TheSink, method, source, message)])
          /\ writes' = Append(writes, [method |-> method, source |-> source,
                                       scoped |-> FALSE, message |-> message])
    /\ lastOp' = Op("write", "", FALSE)
    /\ UNCHANGED <<batches, handleCalls, activationCalls, validatorVars, callerVars,
                   gitVars>>

\* error, warn or info (message) is called on the collectors that
\* scopeTo(source) of a PluginsMessageCollector and of a
\* PluginsMessageForwarder returned
WriteScoped ==
    /\ Len(writes) < MaxWrites
    /\ \E method \in Methods, source \in Sources, message \in MessageValues :
          /\ messages' = ScopedCollectorWrite(messages, scopeTo("messages", source),
                                              method, message)
          /\ Becomes([Registry EXCEPT !.sinkCalls =
                         ScopedForwarderWrite(@, scopeTo(TheSink, source),
                                              method, message)])
          /\ writes' = Append(writes, [method |-> method, source |-> source,
                                       scoped |-> TRUE, message |-> message])
    /\ lastOp' = Op("write", "", FALSE)
    /\ UNCHANGED <<batches, handleCalls, activationCalls, validatorVars, callerVars,
                   gitVars>>

\* the two message collectors alone, given the same calls
NextCollectors ==
    \/ WriteDirect
    \/ WriteScoped

SpecCollectors == Init /\ [][NextCollectors]_vars

\* the changes a caller makes to an array it holds: push a description,
\* pop, reverse
ArrayChanges == {"push", "pop", "reverse"}

\* the description a caller pushes
PushedDescription == "Bad"

RECURSIVE Reverse(_)
Reverse(seq) == IF seq = <<>> THEN <<>> ELSE Append(Reverse(Tail(seq)), Head(seq))

\* the elements of an array after change
Changed(elements, change) ==
    CASE change = "push" -> Append(elements, PushedDescription)
      [] change = "pop" -> IF elements = <<>> THEN <<>> ELSE Front(elements)
      [] change = "reverse" -> Reverse(elements)

\* the object a reference points to, as its holders left it: a caller that
\* modified a description deleted its contributes
Content(ref) ==
    IF ref \in modified
    THEN Obj([k \in DOMAIN Deref(ref).val \ {"contributes"} |-> Deref(ref).val[k]])
    ELSE Deref(ref)

\* the ids a caller asks getPluginDescription for
PluginIds == {"a", "b", "c", "d"}

\* a caller calls getAllPluginDescriptions() and keeps the array
GetAllPluginDescriptions ==
    /\ Len(returned) < MaxReturned
    /\ returned' = Append(returned, getAllPluginDescriptions(Registry))
    /\ lastOp' = Op("getAllPluginDescriptions", "", FALSE)
    /\ UNCHANGED <<registryFields, batches, handleCalls, activationCalls,
                   held, modified, mutations, validatorVars, collectorVars,
                   gitVars>>

\* a caller calls getPluginDescriptionsForActivationEvent(e) and keeps the
\* array
GetPluginDescriptionsForActivationEvent ==
    /\ Len(returned) < MaxReturned
    /\ \E activationEvent \in ActivationEvents :
          returned' = Append(returned,
                             getPluginDescriptionsForActivationEvent(
                                 Registry, activationEvent))
    /\ lastOp' = Op("getPluginDescriptionsForActivationEvent", "", FALSE)
    /\ UNCHANGED <<registryFields, batches, handleCalls, activationCalls,
                   held, modified, mutations, validatorVars, collectorVars,
                   gitVars>>

\* a caller calls getPluginDescription(id) and keeps what it returned
GetPluginDescription ==
    /\ \E pluginId \in PluginIds :
          held' = held \cup {getPluginDescription(Registry, pluginId)}
    /\ lastOp' = Op("getPluginDescription", "", FALSE)
    /\ UNCHANGED <<registryFields, batches, handleCalls, activationCalls,
                   returned, modified, mutations, validatorVars, collectorVars,
                   gitVars>>

\* a caller changes an array it was handed: an array of its own, or the
\* array of the registry it holds a reference to
MutateReturned ==
    /\ mutations < MaxMutations
    /\ \E k \in 1..Len(returned), change \in ArrayChanges :
          LET arr == returned[k]
              changed == Changed(Elements(Registry, arr), change)
          IN IF arr.array = OwnArray
             THEN /\ returned' = [returned EXCEPT ![k].elements = changed]
                  /\ Becomes(Registry)
             ELSE /\ returned' = returned
                  /\ Becomes(IF arr.array = "pluginsArr"
                             THEN [Registry EXCEPT !.pluginsArr = changed]
                             ELSE [Registry EXCEPT
                                     !.activationMap[arr.array] = changed])
    /\ mutations' = mutations + 1
    /\ lastOp' = Op("mutate", "", FALSE)
    /\ UNCHANGED <<batches, handleCalls, activationCalls, held, modified,
                   validatorVars, collectorVars,
                   gitVars>>

\* a caller modifies a description it was handed: delete description.contributes
ModifyDescription ==
    /\ mutations < MaxMutations
    /\ \E description \in held \ {NullRef} :
          modified' = modified \cup {description}
    /\ mutations' = mutations + 1
    /\ lastOp' = Op("modify", "", FALSE)
    /\ UNCHANGED <<registryFields, batches, handleCalls, activationCalls,
                   returned, held, validatorVars, collectorVars,
                   gitVars>>

\* the store and a caller of the getters that return arrays
NextCaller ==
    \/ RegisterOnePlugin
    \/ GetAllPluginDescriptions
    \/ GetPluginDescriptionsForActivationEvent
    \/ MutateReturned

SpecCaller == Init /\ [][NextCaller]_vars

\* the store and a caller of getPluginDescription
NextHolder ==
    \/ RegisterOnePlugin
    \/ GetPluginDescription
    \/ ModifyDescription

SpecHolder == Init /\ [][NextHolder]_vars

(***************************************************************************)
(* Vocabulary of the properties.                                           *)
(***************************************************************************)
\* desc is a description whose contributes mapping has the key name
ContributesTo(desc, name) ==
    /\ Deref(desc).type = "object"
    /\ "contributes" \in DOMAIN Deref(desc).val
    /\ Deref(desc).val.contributes.type = "object"
    /\ name \in DOMAIN Deref(desc).val.contributes.val

\* the descriptions handed to the handler in one invocation
DescriptionsOf(call) == [i \in 1..Len(call.users) |-> call.users[i].description]

\* how often desc has been passed to the handler of the point called name
Delivered(name, desc) ==
    Cardinality({ki \in (1..Len(calls)) \X (1..(MaxBatches * MaxBatchLen + 1)) :
                    /\ calls[ki[1]].extensionPoint = name
                    /\ ki[2] <= Len(calls[ki[1]].users)
                    /\ calls[ki[1]].users[ki[2]].description = desc})

\* the id of the description desc
IdOf(desc) == Deref(desc).val.id

\* the point called name is registered
Registered(name) == \E i \in 1..Len(extensionPoints) : extensionPoints[i].name = name

\* the registered point called name
Point(name) == PointOf(Registry, name)

\* every entry of every batch so far is a description, and no two entries
\* share an id
DistinctIds ==
    LET entries == {<<k, i>> \in (1..Len(batches)) \X (1..MaxBatchLen) :
                       i <= Len(batches[k])}
    IN /\ \A e \in entries : batches[e[1]][e[2]] # NullRef
       /\ \A e, f \in entries :
             e # f => IdOf(batches[e[1]][e[2]]) # IdOf(batches[f[1]][f[2]])

\* every stored description that contributes to the point called name has been
\* passed to its handler exactly once
DeliveredOnce(name) ==
    \A i \in 1..Len(pluginsArr) :
        ContributesTo(pluginsArr[i], name) => Delivered(name, pluginsArr[i]) = 1

NewCalls == SubSeq(calls', Len(calls) + 1, Len(calls'))

\* the descriptions the step just taken appended to the master list
NewlyInserted == SubSeq(pluginsArr', Len(pluginsArr) + 1, Len(pluginsArr'))

\* the elements of seq that contribute to the point called name, in order
ContributorsIn(seq, name) ==
    LET Test(desc) == ContributesTo(desc, name)
    IN SelectSeq(seq, Test)

\* the step just taken is a registerPlugins call
IsRegisterPlugins == lastOp'.method = "registerPlugins" /\ batches' # batches

(***************************************************************************)
(* C2: every list a handler receives as a result of registerPlugins(batch) *)
(* holds exactly the descriptions this call newly inserted into the store  *)
(* that contribute to the handler's point: no rejected duplicate, nothing  *)
(* of an earlier batch.                                                    *)
(* Fails: the second loop of registerPlugins filters the whole batch, so a *)
(* description rejected for its id is handed to the handler all the same.  *)
(***************************************************************************)
C2_OnlyNewlyInserted ==
    [][IsRegisterPlugins =>
          \A k \in 1..Len(NewCalls) :
              DescriptionsOf(NewCalls[k])
                  = ContributorsIn(NewlyInserted, NewCalls[k].extensionPoint)]_vars

(***************************************************************************)
(* C3: once a point has its handler and its collector, registering batches *)
(* with pairwise distinct ids one after another invokes the handler once   *)
(* per batch that has a contributor to the point, with exactly the         *)
(* contributors of that batch, and not at all for a batch without one.     *)
(* Fails after a second handleExtensionPoints call (the defect of C4): the *)
(* point then has two listener entries and each batch is delivered twice.  *)
(***************************************************************************)
C3_OncePerBatch ==
    [][(IsRegisterPlugins /\ DistinctIds') =>
          \A name \in PointNames :
              (/\ Registered(name)
               /\ Point(name).handler # NoHandler
               /\ Point(name).collector # NoCollector)
              => LET batch == Last(batches')
                     mine == SelectSeq(NewCalls,
                                       LAMBDA call : call.extensionPoint = name)
                 IN IF ContributorsIn(batch, name) = <<>>
                    THEN mine = <<>>
                    ELSE /\ Len(mine) = 1
                         /\ DescriptionsOf(mine[1]) = ContributorsIn(batch, name)]_vars

(***************************************************************************)
(* C4: when handleExtensionPoints has been called more than once, no       *)
(* description has been delivered to the handler of any extension point    *)
(* more than once (the batches having pairwise distinct ids, so that no    *)
(* description is handed in twice).                                        *)
(* Fails: every handleExtensionPoints call makes _handle register one more *)
(* listener for each point that has a handler, and registerPointListener   *)
(* replays all stored descriptions to it.                                  *)
(***************************************************************************)
C4_HandleIdempotent ==
    (handleCalls >= 2 /\ DistinctIds) =>
        \A name \in PointNames : \A i \in 1..Len(pluginsArr) :
            Delivered(name, pluginsArr[i]) <= 1

\* C4's case is reached: descriptions were replayed, then
\* handleExtensionPoints was called again
C4_Reached ==
    /\ handleCalls >= 2
    /\ DistinctIds
    /\ lastOp.method = "handleExtensionPoints"
    /\ Len(calls) >= 2

(***************************************************************************)
(* C5: every identifier appears at most once in the master list, whatever  *)
(* batches were registered (ids repeated within or across batches).        *)
(***************************************************************************)
C5_UniqueIds ==
    \A i, j \in 1..Len(pluginsArr) :
        i # j => IdOf(pluginsArr[i]) # IdOf(pluginsArr[j])

\* C5's case: ids were repeated, within a batch and across batches
C5_Witness ==
    /\ Len(batches) = 2
    /\ Len(consoleErrors) >= 2
    /\ Len(pluginsArr) >= 2
    /\ \E i \in 1..Len(batches[1]) : batches[1][i] \in Range(batches[2])
    /\ Len(batches[2]) = 2
    /\ batches[2][1] # NullRef
    /\ batches[2][2] # NullRef
    /\ batches[2][1] # batches[2][2]
    /\ IdOf(batches[2][1]) = IdOf(batches[2][2])

\* the fields of the registry and its observable effects
registryVars == <<pluginsMap, pluginsArr, activationMap, pointListeners,
                  extensionPoints, schemaProperties,
                  oneTimeActivationEventListeners, activationLog,
                  calls, consoleErrors, unexpectedErrors>>

\* seq is a prefix of longer
IsPrefix(seq, longer) ==
    Len(seq) <= Len(longer) /\ SubSeq(longer, 1, Len(seq)) = seq

\* the sequence stored for the activation event key in map, empty if none
SequenceFor(map, key) == IF key \in DOMAIN map THEN map[key] ELSE <<>>

\* the entries of batch that are missing (null)
HasMissingEntry(batch) == \E i \in 1..Len(batch) : batch[i] = NullRef

\* the entries of batch whose id is neither stored already nor used by an
\* earlier entry of batch, in order
FreshEntries(batch) ==
    LET indices == [i \in 1..Len(batch) |-> i]
        fresh == SelectSeq(indices,
                     LAMBDA i : /\ IdOf(batch[i]) \notin DOMAIN pluginsMap
                                /\ \A j \in 1..(i - 1) :
                                       IdOf(batch[j]) # IdOf(batch[i]))
    IN [k \in 1..Len(fresh) |-> batch[fresh[k]]]

(***************************************************************************)
(* C6: a registerPlugins call on a batch of descriptions leaves every      *)
(* stored description in place (id map, master list, activation            *)
(* sequences), indexes nothing of an entry whose id is already taken,      *)
(* writes exactly one diagnostic per such entry, and still inserts every   *)
(* other entry of the batch.                                               *)
(***************************************************************************)
C6_DuplicateSkipped ==
    [][(IsRegisterPlugins /\ ~HasMissingEntry(Last(batches'))) =>
          LET batch == Last(batches')
              fresh == FreshEntries(batch)
          IN /\ \A id \in DOMAIN pluginsMap :
                    id \in DOMAIN pluginsMap' /\ pluginsMap'[id] = pluginsMap[id]
             /\ pluginsArr' = pluginsArr \o fresh
             /\ DOMAIN pluginsMap' =
                    DOMAIN pluginsMap \cup {IdOf(fresh[k]) : k \in 1..Len(fresh)}
             /\ \A key \in DOMAIN activationMap' :
                    /\ IsPrefix(SequenceFor(activationMap, key), activationMap'[key])
                    /\ \A k \in (Len(SequenceFor(activationMap, key)) + 1)
                                  ..Len(activationMap'[key]) :
                           activationMap'[key][k] \in Range(fresh)
             /\ DOMAIN activationMap \subseteq DOMAIN activationMap'
             /\ Len(consoleErrors') = Len(consoleErrors) + Len(batch) - Len(fresh)
             /\ IsPrefix(consoleErrors, consoleErrors')
             /\ ~lastOp'.threw]_vars

\* C6's case: the second batch starts with a description that uses the id of
\* a different, stored one and goes on with a new description, which is
\* inserted
C6_Witness ==
    /\ lastOp.method = "registerPlugins"
    /\ Len(batches) = 2
    /\ Len(batches[1]) >= 1
    /\ Len(batches[2]) = 2
    /\ ~HasMissingEntry(batches[1])
    /\ ~HasMissingEntry(batches[2])
    /\ batches[2][1] # batches[1][1]
    /\ IdOf(batches[2][1]) = IdOf(batches[1][1])
    /\ pluginsMap[IdOf(batches[1][1])] = batches[1][1]
    /\ Len(consoleErrors) = 1
    /\ Last(pluginsArr) = batches[2][2]

\* isValidPluginDescription accepts desc
IsValid(desc) ==
    /\ desc # NullRef
    /\ isValidPluginDescription(Deref(desc).val.extensionFolderPath, Deref(desc)).ok

(***************************************************************************)
(* C7: registerPlugins validates every description of the batch: no        *)
(* description that fails validation is stored or delivered to a handler,  *)
(* and no registerPlugins call aborts.                                     *)
(* Fails: registerPlugins never calls isValidPluginDescription; it stores  *)
(* and delivers an invalid manifest, and throws on a missing entry.        *)
(***************************************************************************)
C7_OnlyValidRegistered ==
    /\ \A i \in 1..Len(pluginsArr) : IsValid(pluginsArr[i])
    /\ \A id \in DOMAIN pluginsMap : IsValid(pluginsMap[id])
    /\ \A key \in DOMAIN activationMap :
           \A i \in 1..Len(activationMap[key]) : IsValid(activationMap[key][i])
    /\ \A k \in 1..Len(calls) :
           \A i \in 1..Len(calls[k].users) : IsValid(calls[k].users[i].description)
    /\ lastOp.method = "registerPlugins" => ~lastOp.threw

\* desc declares the activation event with the key key
Declares(desc, key) ==
    /\ "activationEvents" \in DOMAIN Deref(desc).val
    /\ Deref(desc).val.activationEvents.type = "array"
    /\ \E j \in 1..Len(Deref(desc).val.activationEvents.val) :
           EventKey(Deref(desc).val.activationEvents.val[j]) = key

(***************************************************************************)
(* C8: getPluginDescriptionsForActivationEvent(e) is the sequence of the   *)
(* stored descriptions whose activationEvents contains e, each once, in    *)
(* registration order (empty when there is none), also for a description   *)
(* that names e more than once.                                            *)
(* Fails: registerPlugins pushes the description once per occurrence of e  *)
(* in its activationEvents, so it is returned as often as it names e.      *)
(***************************************************************************)
C8_ActivationLookup ==
    \A key \in ActivationEvents :
        getPluginDescriptionsForActivationEvent(Registry, key).elements
            = SelectSeq(pluginsArr, LAMBDA desc : Declares(desc, key))

(***************************************************************************)
(* C9: registerExtensionPoint with a name that is already registered       *)
(* throws and changes nothing (the point, its handler, its collector, the  *)
(* listeners, the deliveries made, the schema registered for the name);    *)
(* with a new name it returns a new point and leaves the others alone.     *)
(***************************************************************************)
C9_DuplicatePointRejected ==
    [][lastOp'.method = "registerExtensionPoint" =>
          IF Registered(lastOp'.point)
          THEN /\ lastOp'.threw
               /\ UNCHANGED registryVars
          ELSE /\ ~lastOp'.threw
               /\ extensionPoints'
                      = Append(extensionPoints, NewExtensionPoint(lastOp'.point))
               /\ UNCHANGED <<pointListeners, calls>>]_vars

\* C9's case: the call failed for a point that has a handler, a collector
\* and deliveries behind it
C9_Witness ==
    /\ lastOp.method = "registerExtensionPoint"
    /\ lastOp.threw
    /\ Point(lastOp.point).handler # NoHandler
    /\ Point(lastOp.point).collector # NoCollector
    /\ \E k \in 1..Len(calls) : calls[k].extensionPoint = lastOp.point
    /\ Len(extensionPoints) = 2

(***************************************************************************)
(* C10: setHandler on a point that has a handler throws, invokes no        *)
(* handler and registers no listener; a handler once bound stays bound,    *)
(* and it is the one every later delivery to the point goes to.            *)
(***************************************************************************)
C10_SecondHandlerRejected ==
    [][/\ \A i \in 1..Len(extensionPoints) :
             extensionPoints[i].handler # NoHandler =>
                 /\ extensionPoints'[i].handler = extensionPoints[i].handler
                 /\ \A k \in 1..Len(NewCalls) :
                        NewCalls[k].extensionPoint = extensionPoints[i].name =>
                            NewCalls[k].handler = extensionPoints[i].handler
       /\ (lastOp'.method = "setHandler" /\ Point(lastOp'.point).handler # NoHandler) =>
              /\ lastOp'.threw
              /\ UNCHANGED registryVars]_vars

\* C10's case: a second setHandler call failed on a point whose first
\* handler had already received descriptions
C10_Witness ==
    /\ lastOp.method = "setHandler"
    /\ lastOp.threw
    /\ Point(lastOp.point).handler = OwnHandler(lastOp.point)
    /\ \E k \in 1..Len(calls) :
           /\ calls[k].extensionPoint = lastOp.point
           /\ calls[k].handler = OwnHandler(lastOp.point)

\* the invocations in seq of the handler of the point called name
CallsFor(seq, name) == SelectSeq(seq, LAMBDA call : call.extensionPoint = name)

\* the listener entries in seq of the point called name
ListenersFor(seq, name) == SelectSeq(seq, LAMBDA entry : entry.extensionPoint = name)

(***************************************************************************)
(* C11: a handler is invoked only for a point that handleExtensionPoints   *)
(* has given a collector before: as long as handleExtensionPoints has not  *)
(* been called, setHandler and registerPlugins invoke no handler and       *)
(* register no listener, and every invocation ever made carries the        *)
(* collector of a handleExtensionPoints call made before it.               *)
(***************************************************************************)
C11_CollectorBeforeDelivery ==
    /\ handleCalls = 0 => (calls = <<>> /\ pointListeners = <<>>)
    /\ \A k \in 1..Len(calls) :
          /\ Point(calls[k].extensionPoint).collector # NoCollector
          /\ \A i \in 1..Len(calls[k].users) :
                calls[k].users[i].collector.actual \in 1..handleCalls
    /\ \A k \in 1..Len(pointListeners) :
          /\ Point(pointListeners[k].extensionPoint).collector # NoCollector
          /\ Point(pointListeners[k].extensionPoint).handler # NoHandler

\* C11's case: a handler is bound and a contributing description is stored,
\* handleExtensionPoints has not been called, and nothing was delivered
C11_Witness ==
    /\ handleCalls = 0
    /\ Registered("commands")
    /\ Point("commands").handler # NoHandler
    /\ \E i \in 1..Len(pluginsArr) : ContributesTo(pluginsArr[i], "commands")
    /\ Len(batches) = 2
    /\ lastOp.method = "registerPlugins"
    /\ calls = <<>>

\* the descriptions a step offers to the listeners of a point: the batch of a
\* registerPlugins call, the stored descriptions when a listener is registered
Offered == IF IsRegisterPlugins THEN Last(batches') ELSE pluginsArr'

\* the listeners of the point called name a step fires: all of them in a
\* registerPlugins call, else the ones the step registers
FiredListeners(name) ==
    IF IsRegisterPlugins THEN ListenersFor(pointListeners', name)
    ELSE ListenersFor(SubSeq(pointListeners', Len(pointListeners) + 1,
                             Len(pointListeners')), name)

Throws(seq) == Len(SelectSeq(seq, LAMBDA call : call.handler \in ThrowingHandlers))

(***************************************************************************)
(* C13: every error a handler throws is caught and reported to             *)
(* onUnexpectedError exactly once; the registerPlugins, setHandler or      *)
(* handleExtensionPoints call that made the delivery returns normally, a   *)
(* batch is merged in full, and every listener of every point with a       *)
(* contributor is still fired.                                             *)
(***************************************************************************)
C13_ThrowingHandlerIsolated ==
    [][/\ unexpectedErrors' = unexpectedErrors + Throws(NewCalls)
       /\ Throws(NewCalls) > 0 =>
             /\ ~lastOp'.threw
             /\ IsRegisterPlugins =>
                   /\ pluginsArr' = pluginsArr \o FreshEntries(Last(batches'))
                   /\ \A i \in 1..Len(Last(batches')) :
                         IdOf(Last(batches')[i]) \in DOMAIN pluginsMap'
             /\ \A name \in PointNames :
                   ContributorsIn(Offered, name) # <<>> =>
                       Len(CallsFor(NewCalls, name)) = Len(FiredListeners(name))]_vars

\* C13's case: one batch is delivered to two points; the handler of the
\* first listener throws, the second listener is fired all the same
C13_Witness ==
    /\ lastOp.method = "registerPlugins"
    /\ ~lastOp.threw
    /\ Len(batches) = 1
    /\ Len(calls) = 2
    /\ calls[1].handler \in ThrowingHandlers
    /\ calls[2].handler \notin ThrowingHandlers
    /\ calls[1].extensionPoint # calls[2].extensionPoint
    /\ DescriptionsOf(calls[1]) = pluginsArr
    /\ DescriptionsOf(calls[2]) = pluginsArr
    /\ unexpectedErrors = 1

(***************************************************************************)
(* Vocabulary of the one-time listener properties, read off activationLog. *)
(***************************************************************************)
\* the positions of the log entries of the kind op
Positions(op) == {p \in 1..Len(activationLog) : activationLog[p].op = op}

\* the position of the first trigger of the event of entry p behind p, or 0
FirstTriggerAfter(p) ==
    LET later == {q \in Positions("trigger") :
                     q > p /\ activationLog[q].event = activationLog[p].event}
    IN IF later = {} THEN 0
       ELSE CHOOSE q \in later : \A r \in later : q <= r

\* the position of the last trigger of the event of entry p before p, or 0
LastTriggerBefore(p) ==
    LET earlier == {q \in Positions("trigger") :
                       q < p /\ activationLog[q].event = activationLog[p].event}
    IN IF earlier = {} THEN 0
       ELSE CHOOSE q \in earlier : \A r \in earlier : q >= r

\* the positions at which the registration made at position p was invoked
InvocationsOf(p) ==
    {q \in Positions("invoke") :
        activationLog[q].registration = activationLog[p].registration}

\* a log entry as the listener and the number of its registration
Queued(entry) == [listener |-> entry.listener, registration |-> entry.registration]

\* the listeners invoked by the trigger call logged at position q, in order
InvokedBy(q) ==
    LET mine == SelectSeq(activationLog,
                    LAMBDA entry : /\ entry.op = "invoke"
                                   /\ entry.trigger = activationLog[q].trigger)
    IN [i \in 1..Len(mine) |-> Queued(mine[i])]

\* the listeners registered for the event of the trigger at position q since
\* the trigger of that event before it, in the order of their registration
PendingAt(q) ==
    LET from == LastTriggerBefore(q)
        indices == SelectSeq([p \in 1..Len(activationLog) |-> p],
                       LAMBDA p : /\ from < p
                                  /\ p < q
                                  /\ activationLog[p].op = "register"
                                  /\ activationLog[p].event = activationLog[q].event)
    IN [i \in 1..Len(indices) |-> Queued(activationLog[indices[i]])]

(***************************************************************************)
(* C14: every registration of a one-time listener for an event e is        *)
(* invoked exactly once, by the first trigger of e that follows it (be it  *)
(* issued by a caller or from inside a listener) and by no other; before   *)
(* such a trigger it is not invoked.  A trigger of e with no registration  *)
(* for e since the trigger of e before it invokes nothing.                 *)
(***************************************************************************)
C14_OneTimeListenersRunOnce ==
    /\ \A p \in Positions("register") :
          LET q == FirstTriggerAfter(p)
          IN IF q = 0 THEN InvocationsOf(p) = {}
             ELSE /\ Cardinality(InvocationsOf(p)) = 1
                  /\ \A k \in InvocationsOf(p) :
                        /\ k > q
                        /\ activationLog[k].trigger = activationLog[q].trigger
    /\ \A q \in Positions("trigger") :
          (/\ LastTriggerBefore(q) # 0
           /\ PendingAt(q) = <<>>) => InvokedBy(q) = <<>>

\* C14's case: a listener was invoked by the first of two triggers of its
\* event, issued by a caller, and the second one found nothing
C14_Witness ==
    /\ Len(activationLog) = 4
    /\ activationLog[1].op = "register"
    /\ activationLog[2].op = "trigger"
    /\ activationLog[2].event = activationLog[1].event
    /\ activationLog[3].op = "invoke"
    /\ activationLog[4].op = "trigger"
    /\ activationLog[4].event = activationLog[1].event

(***************************************************************************)
(* C15: a trigger of e invokes the listeners registered for e since the    *)
(* trigger of e before it, all of them, in the order of their              *)
(* registerOneTimeActivationEventListener calls; a listener registered     *)
(* twice is invoked twice, once in the place of each registration.         *)
(***************************************************************************)
C15_FifoOrder ==
    \A q \in Positions("trigger") : InvokedBy(q) = PendingAt(q)

\* C15's case: one trigger invoked three registrations, two of them of the
\* same listener and one of another
C15_Witness ==
    \E q \in Positions("trigger") :
        /\ Len(InvokedBy(q)) = 3
        /\ \E i, j \in 1..3 : i # j /\ InvokedBy(q)[i].listener = InvokedBy(q)[j].listener
        /\ \E i, j \in 1..3 : InvokedBy(q)[i].listener # InvokedBy(q)[j].listener

\* what the step just taken added to the log
NewLog == SubSeq(activationLog', Len(activationLog) + 1, Len(activationLog'))

\* the step just taken is a triggerActivationEventListeners call of a caller
IsTrigger ==
    /\ lastOp'.method = "triggerActivationEventListeners"
    /\ activationCalls' # activationCalls

(***************************************************************************)
(* C16: when a listener throws, onUnexpectedError is called once for the   *)
(* error, the listeners queued behind it are invoked all the same and in   *)
(* order, triggerActivationEventListeners returns normally, and no         *)
(* listener that was invoked (the one that threw included) is queued       *)
(* afterwards.                                                             *)
(***************************************************************************)
C16_ThrowingListenerIsolated ==
    [][IsTrigger =>
          LET event == NewLog[1].event
              invoked == SelectSeq(NewLog,
                             LAMBDA entry : /\ entry.op = "invoke"
                                            /\ entry.trigger = NewLog[1].trigger)
              thrown == SelectSeq(NewLog,
                            LAMBDA entry : /\ entry.op = "invoke"
                                           /\ entry.listener = "l2")
          IN /\ ~lastOp'.threw
             /\ [i \in 1..Len(invoked) |-> Queued(invoked[i])]
                    = SequenceFor(oneTimeActivationEventListeners, event)
             /\ unexpectedErrors' = unexpectedErrors + Len(thrown)
             /\ \A key \in DOMAIN oneTimeActivationEventListeners' :
                   \A i \in 1..Len(oneTimeActivationEventListeners'[key]) :
                       \A k \in 1..Len(NewLog) :
                           NewLog[k].op = "invoke" =>
                               oneTimeActivationEventListeners'[key][i].registration
                                   # NewLog[k].registration]_vars

\* C16's case: a trigger invoked a listener that threw and then two more; a
\* later trigger of the event invoked nothing
C16_Witness ==
    /\ lastOp.method = "triggerActivationEventListeners"
    /\ ~lastOp.threw
    /\ unexpectedErrors = 1
    /\ \E q \in Positions("trigger") :
          /\ Len(InvokedBy(q)) = 2
          /\ InvokedBy(q)[1].listener = "l2"
          /\ InvokedBy(q)[2].listener # "l2"
          /\ \E r \in Positions("trigger") :
                /\ r > q
                /\ activationLog[r].event = activationLog[q].event
                /\ InvokedBy(r) = <<>>

\* the positions of the registrations made by a listener while it was
\* invoked: l3 registers as soon as it is invoked
RegisteredWhileFiring ==
    {p \in Positions("register") :
        /\ p > 1
        /\ activationLog[p - 1].op = "invoke"
        /\ activationLog[p - 1].listener = "l3"}

\* the position of the trigger entry of the call numbered trigger
PositionOfTrigger(trigger) ==
    CHOOSE q \in Positions("trigger") : activationLog[q].trigger = trigger

(***************************************************************************)
(* C17: a listener registered for e by a listener that a trigger of e is   *)
(* invoking is not invoked by that trigger; that trigger invokes the       *)
(* listeners it found queued, each exactly once; the new listener is       *)
(* invoked, once, by the next trigger of e.                                *)
(***************************************************************************)
C17_RegistrationWhileFiring ==
    \A p \in RegisteredWhileFiring :
        LET inProgress == PositionOfTrigger(activationLog[p - 1].trigger)
            next == FirstTriggerAfter(p)
        IN /\ \A k \in InvocationsOf(p) :
                 activationLog[k].trigger # activationLog[inProgress].trigger
           /\ InvokedBy(inProgress) = PendingAt(inProgress)
           /\ \A i, j \in 1..Len(InvokedBy(inProgress)) :
                 i # j => InvokedBy(inProgress)[i].registration
                              # InvokedBy(inProgress)[j].registration
           /\ IF next = 0 THEN InvocationsOf(p) = {}
              ELSE /\ Cardinality(InvocationsOf(p)) = 1
                   /\ \A k \in InvocationsOf(p) :
                         activationLog[k].trigger = activationLog[next].trigger

\* C17's case: the first trigger invoked a listener that registered another
\* one and then a second listener; the next trigger invoked the new one
C17_Witness ==
    /\ activationCalls = 4
    /\ \E p \in RegisteredWhileFiring :
          LET inProgress == PositionOfTrigger(activationLog[p - 1].trigger)
          IN /\ Len(InvokedBy(inProgress)) = 2
             /\ InvokedBy(inProgress)[1].listener = "l3"
             /\ FirstTriggerAfter(p) # 0
             /\ InvokedBy(FirstTriggerAfter(p)) = <<Queued(activationLog[p])>>

\* a handler has called back into the registry: r1 or r2 was invoked
ReentrantCallMade ==
    \E k \in 1..Len(calls) : calls[k].handler \in ReentrantHandlers

\* every stored description has been passed exactly once to the handler of
\* every point it contributes to that has a handler and a collector
EveryDescriptionDeliveredOnce ==
    \A name \in PointNames :
        (/\ Registered(name)
         /\ Point(name).handler # NoHandler
         /\ Point(name).collector # NoCollector)
        => DeliveredOnce(name)

(***************************************************************************)
(* C18: once a handler has called registerPlugins or setHandler from       *)
(* inside its invocation and the outermost call has returned, every stored *)
(* description has been delivered exactly once to every point it           *)
(* contributes to that has a handler and a collector.                      *)
(* Fails through the defect of C4: after a second handleExtensionPoints    *)
(* call a point has two listeners, and what the handler registers from     *)
(* inside, like everything else, is delivered twice.                       *)
(***************************************************************************)
C18_ReentrantExactlyOnce ==
    ReentrantCallMade => EveryDescriptionDeliveredOnce

\* the property of C18 where the defects of C4, C2 and C7 cannot show: one
\* handleExtensionPoints call, no description rejected for its id, no batch
\* with a missing entry
ReentrantExactlyOnceWiredOnce ==
    (/\ ReentrantCallMade
     /\ handleCalls <= 1
     /\ consoleErrors = <<>>
     /\ \A b \in 1..Len(batches) : ~HasMissingEntry(batches[b]))
        => EveryDescriptionDeliveredOnce

\* the re-entrant calls are explored: a batch registered from inside a
\* delivery of another batch, and a handler bound from inside a delivery
ReentrantCallsExplored ==
    /\ handleCalls = 1
    /\ consoleErrors = <<>>
    /\ Len(pluginsArr) > Len(batches[1])
    /\ Len(batches) = 1
    /\ \E k \in 1..Len(calls) : calls[k].handler = "r1"

(***************************************************************************)
(* Vocabulary of the validator properties.                                 *)
(***************************************************************************)
\* the property key of the manifest being validated
Field(key) == Get(manifest.pluginDescription, key)

\* the property key is defined
Defined(key) == TypeOf(Field(key)) # "undefined"

\* the manifest is there
Present == manifest.pluginDescription.type \notin {"null", "undefined"}

\* the manifest passes the checks on publisher, name, engines and
\* extensionDependencies
PassesBasicChecks ==
    /\ Present
    /\ TypeOf(Field("publisher")) = "string"
    /\ TypeOf(Field("name")) = "string"
    /\ Truthy(Field("engines"))
    /\ TypeOf(Get(Field("engines"), "vscode")) = "string"
    /\ ~Defined("extensionDependencies") \/ isStringArray(Field("extensionDependencies"))

(***************************************************************************)
(* C19: a manifest that passes the checks on publisher, name, engines and  *)
(* extensionDependencies is accepted only if activationEvents is defined   *)
(* exactly when main is; it is rejected with activationEvents and no main, *)
(* rejected with main and no activationEvents, accepted with both when     *)
(* activationEvents is an array of strings and main a string, accepted     *)
(* with neither.  A manifest whose publisher is not a string is rejected.  *)
(***************************************************************************)
C19_PairingRule ==
    verdict.done =>
        /\ (PassesBasicChecks /\ verdict.ok) =>
               (Defined("activationEvents") <=> Defined("main"))
        /\ (PassesBasicChecks /\ Defined("activationEvents") /\ ~Defined("main")) =>
               ~verdict.ok
        /\ (PassesBasicChecks /\ Defined("main") /\ ~Defined("activationEvents")) =>
               ~verdict.ok
        /\ (/\ PassesBasicChecks
            /\ isStringArray(Field("activationEvents"))
            /\ TypeOf(Field("main")) = "string") => verdict.ok
        /\ (PassesBasicChecks /\ ~Defined("activationEvents") /\ ~Defined("main")) =>
               verdict.ok
        /\ (Present /\ TypeOf(Field("publisher")) # "string") => ~verdict.ok

\* C19's case: a manifest that is in order but for activationEvents without
\* main was validated and rejected
C19_Witness ==
    /\ verdict.done
    /\ PassesBasicChecks
    /\ isStringArray(Field("activationEvents"))
    /\ ~Defined("main")
    /\ ~verdict.ok

\* the rules of the validator in the order of their checks, each with the
\* condition under which the manifest violates it and the notice of the
\* failure
RuleViolated(rule) ==
    CASE rule = 1 -> ~Present
      [] rule = 2 -> Present /\ TypeOf(Field("publisher")) # "string"
      [] rule = 3 -> Present /\ TypeOf(Field("name")) # "string"
      [] rule = 4 -> Present /\ ~Truthy(Field("engines"))
      [] rule = 5 -> Present /\ TypeOf(Get(Field("engines"), "vscode")) # "string"
      [] rule = 6 -> /\ Present
                     /\ Defined("extensionDependencies")
                     /\ ~isStringArray(Field("extensionDependencies"))
      [] rule = 7 -> /\ Present
                     /\ Defined("activationEvents")
                     /\ ~isStringArray(Field("activationEvents")) \/ ~Defined("main")
      [] rule = 8 -> /\ Present
                     /\ Defined("main")
                     /\ TypeOf(Field("main")) # "string" \/ ~Defined("activationEvents")

FailureNotice(rule) ==
    CASE rule = 1 -> "pluginDescription.empty"
      [] rule = 2 -> "pluginDescription.publisher"
      [] rule = 3 -> "pluginDescription.name"
      [] rule = 4 -> "pluginDescription.engines"
      [] rule = 5 -> "pluginDescription.engines.vscode"
      [] rule = 6 -> "pluginDescription.extensionDependencies"
      [] rule = 7 -> IF ~isStringArray(Field("activationEvents"))
                     THEN "pluginDescription.activationEvents1"
                     ELSE "pluginDescription.activationEvents2"
      [] rule = 8 -> IF TypeOf(Field("main")) # "string"
                     THEN "pluginDescription.main1"
                     ELSE "pluginDescription.main3"

\* the rules the manifest violates
ViolatedRules == {rule \in 1..8 : RuleViolated(rule)}

\* the notices of failures among notices: all but the notice about a main
\* outside the extension folder, which is no failure
Failures(notices) ==
    SelectSeq(notices, LAMBDA notice : notice # "pluginDescription.main2")

ContainmentChecked ==
    /\ verdict.done
    /\ PassesBasicChecks
    /\ ~RuleViolated(7)
    /\ TypeOf(Field("main")) = "string"

\* the path main resolves to from folder
Resolved(folder, main) == PathNormalize(PathJoin(folder, main.val))

\* path lies inside folder: the segments of folder are the first segments
\* of path
InsideFolder(folder, path) == IsPrefix(SplitPath(folder), SplitPath(path))

\* the main of the manifest being validated resolves inside its folder
MainInside ==
    InsideFolder(manifest.extensionFolderPath,
                 Resolved(manifest.extensionFolderPath, Field("main")))

\* the notices about a main outside the extension folder among notices
ContainmentNotices(notices) ==
    SelectSeq(notices, LAMBDA notice : notice = "pluginDescription.main2")

\* the strings main is given as
StringMains == {m \in MainValues : TypeOf(m) = "string"}

\* the manifest being validated with main replaced by m
WithMain(m) == Obj([manifest.pluginDescription.val EXCEPT !.main = m])

(***************************************************************************)
(* C21: when the validator checks main against the extension folder, it   *)
(* pushes the notice about a main outside the folder exactly when the      *)
(* segments of the folder are not the first segments of the resolved       *)
(* path: a main resolved into the sibling directory /ext/ab of the folder  *)
(* /ext/a gets the notice, a main resolved inside the folder gets none.    *)
(***************************************************************************)
C21_SegmentPrefixTest ==
    ContainmentChecked =>
        ContainmentNotices(verdict.notices) =
            IF MainInside THEN <<>> ELSE <<"pluginDescription.main2">>

\* what the validator does instead: the notice is pushed exactly when the
\* characters of the folder are not the first characters of the resolved path
C21_CharacterPrefixTest ==
    ContainmentChecked =>
        ContainmentNotices(verdict.notices) =
            IF IsPrefix(manifest.extensionFolderPath,
                        Resolved(manifest.extensionFolderPath, Field("main")))
            THEN <<>> ELSE <<"pluginDescription.main2">>

\* C21's case: a main that resolves into a sibling directory whose name
\* starts with the name of the folder was validated
C21_SiblingValidated ==
    /\ ContainmentChecked
    /\ ~MainInside
    /\ IsPrefix(manifest.extensionFolderPath,
                Resolved(manifest.extensionFolderPath, Field("main")))

(***************************************************************************)
(* C22: of two manifests that differ only in main, one resolved inside     *)
(* the extension folder and one outside, the validator returns the same    *)
(* boolean, and the notices of the one outside are those of the one        *)
(* inside and one more, the notice about a main outside the folder.        *)
(***************************************************************************)
C22_ContainmentOnlyInforms ==
    (ContainmentChecked /\ MainInside) =>
        \A m \in StringMains :
            LET folder == manifest.extensionFolderPath
                other == isValidPluginDescription(folder, WithMain(m))
            IN ~InsideFolder(folder, Resolved(folder, m)) =>
                   /\ other.ok = verdict.ok
                   /\ Failures(other.notices) = verdict.notices
                   /\ ContainmentNotices(other.notices) = <<"pluginDescription.main2">>

\* the part of C22 that holds: whatever string main is, the boolean and the
\* notices of failures are the same, and at most one notice about a main
\* outside the folder is pushed
C22_SameResult ==
    ContainmentChecked =>
        \A m \in StringMains :
            LET other == isValidPluginDescription(manifest.extensionFolderPath,
                                                  WithMain(m))
            IN /\ other.ok = verdict.ok
               /\ Failures(other.notices) = Failures(verdict.notices)
               /\ Len(ContainmentNotices(other.notices)) <= 1

(***************************************************************************)
(* Vocabulary of the getter properties.                                    *)
(***************************************************************************)
\* what the getters answer in the registry state R, and the descriptions a
\* point listener registered now would be given for each extension point
GetterResults(R) ==
    [all |-> getAllPluginDescriptions(R).elements,
     byEvent |-> [e \in ActivationEvents |->
                     getPluginDescriptionsForActivationEvent(R, e).elements],
     deliverable |-> [name \in PointNames |->
                         filterWithExtPoint(getAllPluginDescriptions(R).elements,
                                            name)]]

\* the fields of the registry the getters read
Lists == [pluginsArr |-> pluginsArr, activationMap |-> activationMap]

\* the step is a call of a getter that returns an array
IsArrayGetter ==
    lastOp'.method \in {"getAllPluginDescriptions",
                        "getPluginDescriptionsForActivationEvent"}

(***************************************************************************)
(* C23: a call of getAllPluginDescriptions or                              *)
(* getPluginDescriptionsForActivationEvent changes no field of the         *)
(* registry, and when a caller pushes to, pops from or reverses an array   *)
(* it was returned, the fields of the registry, the answers of both        *)
(* getters and the descriptions a handler would be given stay as they      *)
(* were.                                                                   *)
(***************************************************************************)
C23_DefensiveCopies ==
    [][/\ IsArrayGetter => UNCHANGED registryFields
       /\ lastOp'.method = "mutate" =>
             /\ UNCHANGED registryFields
             /\ GetterResults(Lists)' = GetterResults(Lists)]_vars

\* C23's case: a caller got the master list and the list of an activation
\* event, both not empty, and changed both
C23_Witness ==
    /\ lastOp.method = "mutate"
    /\ mutations = 2
    /\ Len(returned) = 2
    /\ Len(pluginsArr) >= 2
    /\ returned[1].elements # pluginsArr
    /\ \E e \in ActivationEvents :
          /\ HasOwnProperty(activationMap, e)
          /\ Len(returned[2].elements) >= Len(activationMap[e])
          /\ returned[2].elements # activationMap[e]
          /\ returned[2].elements # pluginsArr

(***************************************************************************)
(* Vocabulary of the properties of getPluginDescription.                   *)
(***************************************************************************)
\* the description stored first under id, or the missing entry
AcceptedUnder(id) ==
    IF \E i \in 1..Len(pluginsArr) : IdOf(pluginsArr[i]) = id
    THEN pluginsArr[CHOOSE i \in 1..Len(pluginsArr) :
                        /\ IdOf(pluginsArr[i]) = id
                        /\ \A j \in 1..(i - 1) : IdOf(pluginsArr[j]) # id]
    ELSE NullRef

\* what the store holds: the objects behind pluginsMap and pluginsArr
StoreContent ==
    [map |-> [id \in DOMAIN pluginsMap |-> Content(pluginsMap[id])],
     arr |-> [i \in 1..Len(pluginsArr) |-> Content(pluginsArr[i])]]

\* the stored descriptions that have a contribution for the point name
Contributors(name) ==
    SelectSeq(pluginsArr,
              LAMBDA desc : /\ Truthy(Get(Content(desc), "contributes"))
                            /\ HasOwnProperty(Get(Content(desc), "contributes").val,
                                              name))

(***************************************************************************)
(* C24: getPluginDescription(id) answers the description stored under id,  *)
(* or the missing entry when none is, and when a caller modifies a         *)
(* description it was returned, what the store holds and the descriptions  *)
(* that contribute to each extension point stay as they were.              *)
(* Fails: the answer is the stored object itself, so the caller's change   *)
(* is a change of the stored description.                                   *)
(***************************************************************************)
C24_ReturnsCopy ==
    [][/\ \A id \in PluginIds :
             getPluginDescription(Registry, id)' = AcceptedUnder(id)'
       /\ lastOp'.method = "modify" =>
             /\ StoreContent' = StoreContent
             /\ \A name \in PointNames : Contributors(name)' = Contributors(name)]_vars

\* the part of C24 that holds: the answer is the description stored under
\* id, or the missing entry
C24_ReturnsAccepted ==
    \A id \in PluginIds : getPluginDescription(Registry, id) = AcceptedUnder(id)

\* C24's case: a caller modified a description that getPluginDescription
\* returned and the store holds
C24_ModifiedHeld ==
    /\ lastOp.method = "modify"
    /\ \E description \in modified \cap held :
          \E id \in DOMAIN pluginsMap : pluginsMap[id] = description

(***************************************************************************)
(* Vocabulary of the properties of the step of one call.                   *)
(***************************************************************************)
\* the store: the id map, the master list and the activation index
storeVars == <<pluginsMap, pluginsArr, activationMap>>

\* the entries the step added to the activation log
AddedLog == SubSeq(activationLog', Len(activationLog) + 1, Len(activationLog'))

\* the step is a call about one-time listeners
IsListenerCall ==
    lastOp'.method \in {"registerOneTimeActivationEventListener",
                        "triggerActivationEventListeners"}

(***************************************************************************)
(* C25: a call of triggerActivationEventListeners or                       *)
(* registerOneTimeActivationEventListener leaves the id map, the master    *)
(* list and the activation index as they were, and with them the answer    *)
(* of getPluginDescriptionsForActivationEvent for every event; a call of   *)
(* registerPlugins leaves every queue of one-time listeners as it was and  *)
(* invokes no one-time listener.                                           *)
(***************************************************************************)
C25_Independent ==
    [][/\ IsListenerCall =>
             /\ UNCHANGED storeVars
             /\ \A e \in ActivationEvents :
                   getPluginDescriptionsForActivationEvent(Lists, e)'
                       = getPluginDescriptionsForActivationEvent(Lists, e)
       /\ lastOp'.method = "registerPlugins" =>
             /\ UNCHANGED oneTimeActivationEventListeners
             /\ UNCHANGED activationLog]_vars

\* C25's case: an event that stored descriptions declare and that had a
\* listener queued was triggered, the descriptions registered before and
\* after the listener
C25_Witness ==
    /\ lastOp.method = "triggerActivationEventListeners"
    /\ Len(batches) = 2
    /\ \E i, j \in 1..Len(activationLog) :
          /\ i < j
          /\ activationLog[i].op = "register"
          /\ activationLog[j].op = "invoke"
          /\ activationLog[j].event = activationLog[i].event
          /\ HasOwnProperty(activationMap, activationLog[j].event)
          /\ Len(activationMap[activationLog[j].event]) >= 2
          /\ ~HasOwnProperty(oneTimeActivationEventListeners, activationLog[j].event)

(***************************************************************************)
(* Vocabulary of the properties of one trigger.                            *)
(***************************************************************************)
\* the event of the triggerActivationEventListeners call the step is
TriggeredEvent == AddedLog[1].event

\* the queue of one-time listeners of the event e in map, or none
QueueOf(map, e) == IF HasOwnProperty(map, e) THEN <<map[e]>> ELSE <<>>

(***************************************************************************)
(* C29: a call of triggerActivationEventListeners(e) invokes listeners     *)
(* registered for e only and leaves the queue of every other event as it   *)
(* was (there or not there); when there is no queue for e the call         *)
(* invokes no listener and changes no field of the registry.               *)
(***************************************************************************)
C29_OnlyTriggeredEvent ==
    [][lastOp'.method = "triggerActivationEventListeners" =>
          /\ \A i \in 1..Len(AddedLog) :
                AddedLog[i].op = "invoke" => AddedLog[i].event = TriggeredEvent
          /\ \A e \in ActivationEvents \ {TriggeredEvent} :
                QueueOf(oneTimeActivationEventListeners', e)
                    = QueueOf(oneTimeActivationEventListeners, e)
          /\ ~HasOwnProperty(oneTimeActivationEventListeners, TriggeredEvent) =>
                /\ Len(AddedLog) = 1
                /\ UNCHANGED <<pluginsMap, pluginsArr, activationMap, pointListeners,
                               extensionPoints, schemaProperties,
                               oneTimeActivationEventListeners, calls,
                               consoleErrors, unexpectedErrors, sinkCalls>>]_vars

\* C29's case: an event was triggered and its listener invoked while a
\* listener was queued for the other event, and an event without a queue was
\* triggered
C29_Witness ==
    /\ lastOp.method = "triggerActivationEventListeners"
    /\ \E i, j, k \in 1..Len(activationLog) :
          /\ activationLog[i].op = "trigger"
          /\ activationLog[j].op = "invoke"
          /\ i < j
          /\ activationLog[j].trigger = activationLog[i].trigger
          /\ activationLog[k].op = "register"
          /\ k < i
          /\ activationLog[k].event # activationLog[i].event
          /\ HasOwnProperty(oneTimeActivationEventListeners, activationLog[k].event)
    /\ activationLog[Len(activationLog)].op = "trigger"
    /\ ~HasOwnProperty(oneTimeActivationEventListeners,
                       activationLog[Len(activationLog)].event)

\* the names of the registered extension points
RegisteredPoints == {extensionPoints[i].name : i \in 1..Len(extensionPoints)}

(***************************************************************************)
(* C28: whatever call is made, the answer of getAllPluginDescriptions      *)
(* before it is a prefix of the answer after it, and so is the answer of   *)
(* getPluginDescriptionsForActivationEvent for every event, and every      *)
(* extension point registered before it is registered after it.            *)
(***************************************************************************)
C28_StoreOnlyGrows ==
    [][\/ UNCHANGED <<pluginsArr, activationMap, extensionPoints>>
       \/ /\ IsPrefix(getAllPluginDescriptions(Lists).elements,
                      getAllPluginDescriptions(Lists)'.elements)
          /\ \A e \in ActivationEvents :
                IsPrefix(getPluginDescriptionsForActivationEvent(Lists, e).elements,
                         getPluginDescriptionsForActivationEvent(Lists, e)'.elements)
          /\ RegisteredPoints \subseteq RegisteredPoints']_vars

\* C28's case: a second batch was added to a store that was not empty, of
\* which one description was rejected, with both extension points registered
C28_Witness ==
    /\ lastOp.method = "registerPlugins"
    /\ Len(batches) = 2
    /\ Len(pluginsArr) > Len(batches[1])
    /\ Len(batches[1]) >= 1
    /\ batches[1][1] = pluginsArr[1]
    /\ Len(consoleErrors) >= 1
    /\ RegisteredPoints = PointNames
    /\ \E e \in ActivationEvents :
          HasOwnProperty(activationMap, e) /\ Len(activationMap[e]) >= 2

\* every stored description that contributes to the point called name has
\* been passed to its handler
AllDelivered(name) ==
    \A i \in 1..Len(pluginsArr) :
        ContributesTo(pluginsArr[i], name) => Delivered(name, pluginsArr[i]) >= 1

(***************************************************************************)
(* C30: in every state between calls in which handleExtensionPoints has    *)
(* been called and an extension point has a handler, every stored          *)
(* description that contributes to the point has been passed to the        *)
(* handler, also when the point was registered after the                   *)
(* handleExtensionPoints call.                                             *)
(* Fails: a point registered after the last handleExtensionPoints call     *)
(* has no collector, and _handle does nothing without one.                 *)
(***************************************************************************)
C30_NothingLost ==
    \A name \in PointNames :
        (/\ handleCalls >= 1
         /\ Registered(name)
         /\ Point(name).handler # NoHandler)
        => AllDelivered(name)

\* the same for the points that have a collector, registered before a
\* handleExtensionPoints call.  Fails as well: registerPlugins throws at a
\* missing entry of the batch, after it stored the descriptions before it
\* and before it notified any listener.
C30_AttachedNothingLost ==
    \A name \in PointNames :
        (/\ Registered(name)
         /\ Point(name).handler # NoHandler
         /\ Point(name).collector # NoCollector)
        => AllDelivered(name)

\* what holds: nothing is lost for a point that has a handler and a
\* collector as long as no batch had a missing entry
C30_CompleteBatchesNothingLost ==
    \A name \in PointNames :
        (/\ Registered(name)
         /\ Point(name).handler # NoHandler
         /\ Point(name).collector # NoCollector
         /\ \A b \in 1..Len(batches) : ~HasMissingEntry(batches[b]))
        => AllDelivered(name)

\* C30's case: an extension point was registered after
\* handleExtensionPoints, got its handler, and a description contributing
\* to it is stored
C30_LatePoint ==
    /\ handleCalls >= 1
    /\ Registered("commands")
    /\ Point("commands").handler # NoHandler
    /\ Point("commands").collector = NoCollector
    /\ \E i \in 1..Len(pluginsArr) : ContributesTo(pluginsArr[i], "commands")

(***************************************************************************)
(* Vocabulary of the message properties.                                   *)
(***************************************************************************)
\* the severity the method of a collector stands for
SeverityOf(method) ==
    CASE method = "error" -> "Error"
      [] method = "warn" -> "Warning"
      [] method = "info" -> "Info"

\* the folder of the description desc
FolderOf(desc) == Deref(desc).val.extensionFolderPath

\* what the sinks are to receive from the handler invocations in log, given
\* that a writing handler writes the value of user i with MethodFor(i)
\* through the collector of user i: one message for each user, in the order
\* of the invocations and of the users, for the sink of the user's
\* collector, with the severity written and the folder of the user's
\* description as source
RECURSIVE ExpectedSinkCalls(_)
ExpectedSinkCalls(log) ==
    IF log = <<>> THEN <<>>
    ELSE LET call == Last(log)
         IN ExpectedSinkCalls(Front(log)) \o
            (IF call.handler \in WritingHandlers
             THEN [i \in 1..Len(call.users) |->
                     [sink |-> call.users[i].collector.actual,
                      type |-> SeverityOf(MethodFor(i)),
                      source |-> FolderOf(call.users[i].description),
                      message |-> <<call.users[i].value>>]]
             ELSE <<>>)

(***************************************************************************)
(* C26: every user given to a handler holds a description, the value of    *)
(* that description's contributes for the point and a collector of a sink  *)
(* passed to handleExtensionPoints, and what a handler writes through the  *)
(* collectors of its users is what the sinks receive: one invocation for   *)
(* each message, with the severity written and the folder of that user's   *)
(* description as source.                                                  *)
(***************************************************************************)
C26_OwnValueOwnScope ==
    /\ \A k \in 1..Len(calls) : \A i \in 1..Len(calls[k].users) :
          LET user == calls[k].users[i]
          IN /\ user.value = Get(Get(Deref(user.description), "contributes"),
                                 calls[k].extensionPoint)
             /\ user.collector.actual \in 1..handleCalls
    /\ sinkCalls = ExpectedSinkCalls(calls)

\* C26's case: a handler was given two users of different folders at once
\* and wrote through the collector of each
C26_Witness ==
    /\ Len(sinkCalls) >= 2
    /\ \E k \in 1..Len(calls) :
          /\ calls[k].handler \in WritingHandlers
          /\ Len(calls[k].users) = 2
          /\ FolderOf(calls[k].users[1].description)
                 # FolderOf(calls[k].users[2].description)

(***************************************************************************)
(* C27: given the same calls of error, warn and info, made with a source   *)
(* or on a collector that scopeTo(source) returned, the list of the        *)
(* PluginsMessageCollector and the invocations of the sink of the          *)
(* PluginsMessageForwarder are the same sequence of severity, source and   *)
(* text: one for each call, in the order of the calls, with the severity   *)
(* of the method called and the source given or scoped to.                 *)
(***************************************************************************)
C27_SameMessages ==
    /\ Len(messages) = Len(writes)
    /\ Len(sinkCalls) = Len(writes)
    /\ \A i \in 1..Len(writes) :
          /\ messages[i].type = SeverityOf(writes[i].method)
          /\ messages[i].source = writes[i].source
          /\ sinkCalls[i].type = messages[i].type
          /\ sinkCalls[i].source = messages[i].source
          /\ sinkCalls[i].message = messages[i].message
          /\ sinkCalls[i].sink = TheSink

\* C27's case: a warning with a source and an error through a scoped
\* collector, for different sources, one of them an error with a stack
C27_Witness ==
    /\ Len(writes) = 2
    /\ writes[1].method = "warn"
    /\ ~writes[1].scoped
    /\ writes[2].method = "error"
    /\ writes[2].scoped
    /\ writes[1].source # writes[2].source
    /\ Truthy(Get(writes[2].message, "stack"))
    /\ Len(sinkCalls[2].message) > 1

(***************************************************************************)
(* C31: no handler is ever invoked with an empty list of users: a          *)
(* setHandler, handleExtensionPoints or registerPlugins call that finds    *)
(* no description contributing to a point does not call the handler of     *)
(* that point.                                                             *)
(***************************************************************************)
C31_NeverEmptyList ==
    \A k \in 1..Len(calls) : Len(calls[k].users) >= 1

\* C31's case: the point languages has a listener, and a batch without a
\* contributor to languages was registered and delivered to commands only
C31_Witness ==
    /\ lastOp.method = "registerPlugins"
    /\ batches[Len(batches)] = <<"A">>
    /\ \E i \in 1..Len(pointListeners) : pointListeners[i].extensionPoint = "languages"
    /\ \E i \in 1..Len(pointListeners) : pointListeners[i].extensionPoint = "commands"
    /\ Len(calls) >= 1
    /\ calls[Len(calls)].extensionPoint = "commands"
    /\ \A k \in 1..Len(calls) : calls[k].extensionPoint # "languages"

(***************************************************************************)
(* C32: between calls the id map and the master list hold the same         *)
(* descriptions, the map's value for an id being the element of the list   *)
(* with that id, and every element of the sequence of an activation event  *)
(* is an element of the master list that declares the event.               *)
(***************************************************************************)
C32_IndexesConsistent ==
    /\ DOMAIN pluginsMap = {IdOf(pluginsArr[i]) : i \in 1..Len(pluginsArr)}
    /\ \A i \in 1..Len(pluginsArr) : pluginsMap[IdOf(pluginsArr[i])] = pluginsArr[i]
    /\ \A e \in DOMAIN activationMap : \A j \in 1..Len(activationMap[e]) :
          /\ activationMap[e][j] \in Range(pluginsArr)
          /\ Declares(activationMap[e][j], e)

\* C32's case: a batch with a repeated id was registered, then a batch
\* whose second entry is missing, so that registerPlugins threw after it had
\* stored the first
C32_Witness ==
    /\ Len(batches) = 2
    /\ Len(consoleErrors) >= 1
    /\ lastOp.method = "registerPlugins"
    /\ lastOp.threw
    /\ Len(pluginsArr) >= 2
    /\ batches[2][1] = pluginsArr[Len(pluginsArr)]
    /\ DOMAIN activationMap = ActivationEvents

(***************************************************************************)
(* Vocabulary of the order of deliveries.                                  *)
(***************************************************************************)
\* the invocations of the handler of the point called name that were given
\* desc, as positions in calls
DeliveriesOf(name, desc) ==
    {k \in 1..Len(calls) :
        /\ calls[k].extensionPoint = name
        /\ \E i \in 1..Len(calls[k].users) : calls[k].users[i].description = desc}

\* the first of them
FirstDelivery(name, desc) ==
    CHOOSE k \in DeliveriesOf(name, desc) : \A l \in DeliveriesOf(name, desc) : k <= l

\* the deliveries to the point called name follow the order of the master
\* list: of two stored descriptions that were first delivered in different
\* invocations, the one stored first was delivered first
InStoreOrder(name) ==
    \A i, j \in 1..Len(pluginsArr) :
        (/\ i < j
         /\ DeliveriesOf(name, pluginsArr[i]) # {}
         /\ DeliveriesOf(name, pluginsArr[j]) # {})
        => FirstDelivery(name, pluginsArr[i]) <= FirstDelivery(name, pluginsArr[j])

(***************************************************************************)
(* C33: of two stored descriptions that contribute to one extension point  *)
(* and were delivered to its handler in different invocations, the one     *)
(* stored first was delivered first, also when the handler of another      *)
(* point registers a batch while a batch is being delivered.               *)
(* Fails: the batch registered from inside a handler is delivered to the   *)
(* listeners that the outer registerPlugins call has not reached yet       *)
(* before the outer batch is.                                              *)
(***************************************************************************)
C33_DeliveredInStoreOrder ==
    \A name \in PointNames : InStoreOrder(name)

\* C33's case: the handler of commands registered a batch while a batch
\* was being delivered, and both batches were delivered to languages
C33_ReentrantDelivery ==
    /\ lastOp.method = "registerPlugins"
    /\ \E k \in 1..Len(calls) : calls[k].handler = "r1"
    /\ \E i, j \in 1..Len(pluginsArr) :
          /\ i < j
          /\ pluginsArr[j] \in Range(ReentrantBatch)
          /\ DeliveriesOf("languages", pluginsArr[i]) # {}
          /\ DeliveriesOf("languages", pluginsArr[j]) # {}
          /\ DeliveriesOf("languages", pluginsArr[i])
                 \cap DeliveriesOf("languages", pluginsArr[j]) = {}

\* what holds: without a handler that calls back into the registry, and
\* without a batch that made registerPlugins throw at a missing entry, the
\* deliveries to every point follow the order of the master list
C33_InOrderWithoutReentrancy ==
    (\A b \in 1..Len(batches) : ~HasMissingEntry(batches[b])) =>
        \A name \in PointNames : InStoreOrder(name)

(***************************************************************************)
(* Git: the output listeners.  outputListeners is the array of the         *)
(* listener functions; one function may be in it several times.            *)
(***************************************************************************)

\* everything outside the Git part
registryAll == <<registryFields, batches, handleCalls, activationCalls, lastOp,
                 validatorVars, callerVars, collectorVars>>

\* the listener functions a caller registers
OutputListenerFns == {"o1", "o2"}

\* the strings logged
Outputs == {"git clone\n", "fatal"}

\* Array.prototype.indexOf(listener): the 0-based position of the first
\* element that is the function listener, -1 when there is none
listenerIndexOf(list, listener) ==
    IF \E k \in 1..Len(list) : list[k] = listener
    THEN (CHOOSE k \in 1..Len(list) :
             /\ list[k] = listener
             /\ \A m \in 1..(k - 1) : list[m] # listener) - 1
    ELSE -1

\* Array.prototype.splice(start, deleteCount), nothing inserted: the list
\* that is left.  A negative start counts from the end of the list.
splice(list, start, deleteCount) ==
    LET len == Len(list)
        from == IF start < 0
                THEN (IF len + start < 0 THEN 0 ELSE len + start)
                ELSE (IF start > len THEN len ELSE start)
        wanted == IF deleteCount < 0 THEN 0 ELSE deleteCount
        count == IF wanted > len - from THEN len - from ELSE wanted
    IN SubSeq(list, 1, from) \o SubSeq(list, from + count + 1, len)

\* onOutput(listener): the listener is pushed
onOutput(list, listener) == Append(list, listener)

\* the function onOutput(listener) returned, called
disposeOutput(list, listener) ==
    splice(list, listenerIndexOf(list, listener), 1)

\* log(output): every listener of the list is called with output, in the
\* order of the list
log(list, output) ==
    [k \in 1..Len(list) |-> [listener |-> list[k], output |-> output]]

\* a caller registers an output listener and keeps the function returned
OnOutput ==
    /\ Len(disposers) < MaxOnOutput
    /\ \E listener \in OutputListenerFns :
          /\ outputListeners' = onOutput(outputListeners, listener)
          /\ disposers' = Append(disposers, [listener |-> listener])
    /\ UNCHANGED <<disposeCalls, received, cloneVars, parser, registryAll>>

\* a caller calls one of the functions onOutput returned
DisposeOutput ==
    /\ Len(disposeCalls) < MaxDisposeCalls
    /\ \E d \in 1..Len(disposers) :
          /\ outputListeners' = disposeOutput(outputListeners,
                                              disposers[d].listener)
          /\ disposeCalls' = Append(disposeCalls, d)
    /\ UNCHANGED <<disposers, received, cloneVars, parser, registryAll>>

\* the Git logs an output (spawn logs the command line, exec the stderr of
\* a failed command)
LogOutput ==
    /\ Len(received) < MaxLogs
    /\ \E output \in Outputs :
          received' = Append(received, log(outputListeners, output))
    /\ UNCHANGED <<outputListeners, disposers, disposeCalls, cloneVars, parser,
                   registryAll>>

NextOutput ==
    \/ OnOutput
    \/ DisposeOutput
    \/ LogOutput

\* the output listeners of a Git alone
SpecOutput == Init /\ [][NextOutput]_vars

\* the onOutput calls whose function returned has been called
Disposed == Range(disposeCalls)

\* the onOutput calls that registered listener and whose function returned
\* has not been called
LiveRegistrations(listener) ==
    {n \in 1..Len(disposers) :
        disposers[n].listener = listener /\ n \notin Disposed}

\* how many times listener is in list
TimesIn(list, listener) ==
    Cardinality({k \in 1..Len(list) : list[k] = listener})

\* every listener function is registered once for each onOutput call that
\* passed it and whose function returned has not been called
RegisteredUntilDisposed ==
    \A listener \in OutputListenerFns :
        TimesIn(outputListeners, listener)
            = Cardinality(LiveRegistrations(listener))

\* the step is a call of the function the d-th onOutput call returned
IsDisposeCall(d) == disposeCalls' = Append(disposeCalls, d)

(***************************************************************************)
(* C34: the function returned by onOutput(listener) removes exactly that   *)
(* registration and no other; called a second time, or when the listener   *)
(* is already gone, it leaves the registered output listeners unchanged.   *)
(* So a listener function is registered, and receives every log output,    *)
(* once for each onOutput call that passed it and whose function returned  *)
(* was never called.                                                       *)
(* Fails: the function runs splice(indexOf(listener), 1); when the         *)
(* listener is gone indexOf answers -1 and splice(-1, 1) removes the last  *)
(* listener of the list, and when the same function is registered twice a  *)
(* second call removes the other registration.                             *)
(***************************************************************************)
C34_DisposerRemovesOnlyItsRegistration == RegisteredUntilDisposed

\* C34's case: a function returned by onOutput was called a second time
\* while a listener whose own function was never called was registered, and
\* an output was logged afterwards that this listener did not receive
C34_CalledTwiceThenLogged ==
    /\ \E a, b \in 1..Len(disposeCalls) :
          /\ a < b
          /\ disposeCalls[a] = disposeCalls[b]
    /\ received # <<>>
    /\ \E listener \in OutputListenerFns :
          /\ LiveRegistrations(listener) # {}
          /\ \A k \in 1..Len(Last(received)) :
                Last(received)[k].listener # listener

\* what holds: the first call of a function returned by onOutput removes
\* one registration of its listener and no other, as long as no such
\* function has been called twice
C34_FirstCallRemovesItsRegistration ==
    [][\A d \in 1..Len(disposers) :
          (/\ IsDisposeCall(d)
           /\ d \notin Disposed
           /\ RegisteredUntilDisposed)
          => RegisteredUntilDisposed']_vars

\* what holds: log calls the listeners of the list, each as many times as
\* it is in the list
C34_LogReachesTheRegistered ==
    [][Len(received') = Len(received) + 1 =>
          \A listener \in OutputListenerFns :
              Cardinality({k \in 1..Len(Last(received')) :
                              Last(received')[k].listener = listener})
                  = TimesIn(outputListeners, listener)]_vars

(***************************************************************************)
(* Git: clone and exec.  The text the child wrote to stderr is taken as    *)
(* the set of the phrases in it that exec looks for; child is what the     *)
(* child process is going to do.                                           *)
(***************************************************************************)

\* the phrases exec looks for in stderr
Phrases ==
    {"Authentication failed", "bad config file",
     "cannot make pipe for command substitution",
     "cannot create standard input pipe", "Repository not found",
     "unable to access"}

\* the texts on stderr
StderrTexts ==
    {{}} \cup {{p} : p \in Phrases}
         \cup {{"Authentication failed", "Repository not found"}}

\* what a child process does: it emits 'error' (it could not be spawned),
\* it exits with a code, or it is ended by a signal and exits with the
\* code null; leavesFolder tells whether the target folder is in the file
\* system afterwards
Children ==
    {[event |-> "error", exitCode |-> 0, stdout |-> "", stderr |-> {},
      leavesFolder |-> FALSE]}
    \cup [event : {"exit"}, exitCode : {0, 1, 128},
          stdout : {"", "Cloning into 'repository'..."},
          stderr : StderrTexts, leavesFolder : BOOLEAN]
    \cup [event : {"killed"}, exitCode : {0},
          stdout : {"", "Cloning into 'repository'..."},
          stderr : StderrTexts, leavesFolder : {TRUE}]

\* if (exitCode): the code is a number other than 0 (the code of a child
\* ended by a signal is null)
ExitCodeIsTruthy(c) == c.event = "exit" /\ c.exitCode # 0

\* /pattern/.test(stderr)
test(phrase, stderr) == phrase \in stderr

\* the gitErrorCode exec derives from stderr
gitErrorCodeOf(stderr) ==
    IF test("Authentication failed", stderr) THEN "AuthenticationFailed"
    ELSE IF test("bad config file", stderr) THEN "BadConfigFile"
    ELSE IF \/ test("cannot make pipe for command substitution", stderr)
            \/ test("cannot create standard input pipe", stderr)
         THEN "CantCreatePipe"
    ELSE IF test("Repository not found", stderr) THEN "RepositoryNotFound"
    ELSE IF test("unable to access", stderr) THEN "CantAccessRemote"
    ELSE "null"

\* new GitError(data): the fields data.x || null
GitError(data) ==
    [kind |-> "GitError",
     message |-> data.message,
     stdout |-> IF data.stdout = "" THEN "null" ELSE data.stdout,
     stderr |-> data.stderr,
     exitCode |-> data.exitCode,
     gitErrorCode |-> data.gitErrorCode,
     gitCommand |-> data.gitCommand]

\* exec, once the three promises of the child are complete: the promise of
\* exec is rejected with the error of the child or with a GitError, or
\* resolved with the code and the two texts; logged is what is given to
\* this.log
exec(c) ==
    IF c.event = "error"
    THEN [rejected |-> TRUE, error |-> [kind |-> "Error"], logged |-> <<>>]
    ELSE IF ExitCodeIsTruthy(c)
    THEN [rejected |-> TRUE,
          error |-> GitError([message |-> "Failed to execute git",
                              stdout |-> c.stdout, stderr |-> c.stderr,
                              exitCode |-> c.exitCode,
                              gitErrorCode |-> gitErrorCodeOf(c.stderr),
                              gitCommand |-> "clone"]),
          logged |-> <<c.stderr>>]
    ELSE [rejected |-> FALSE, error |-> [kind |-> "none"], logged |-> <<>>]

\* a Git with or without a git path and with or without an output
\* listener; the child of the clone and the outcome of the deletion are
\* what the environment is going to give
InitClone ==
    /\ Constructed
    /\ manifest = [extensionFolderPath |-> <<>>, pluginDescription |-> Undefined]
    /\ verdict = NoVerdict
    /\ parser = NoStatus
    /\ disposeCalls = <<>>
    /\ received = <<>>
    /\ \E listeners \in {<<>>, <<"o1">>} :
          /\ outputListeners = listeners
          /\ disposers = [k \in 1..Len(listeners) |-> [listener |-> listeners[k]]]
    /\ child \in Children
    /\ \E gitPath \in {"", "git"}, delError \in BOOLEAN :
          cloneRun = [NoClone EXCEPT !.gitPath = gitPath, !.delError = delError]

\* clone(repository, repoURL) is called: exec calls spawn, which throws
\* without a git path and else logs the command line and spawns the child;
\* clone returns a promise
Clone ==
    /\ cloneRun.pc = "idle"
    /\ IF cloneRun.gitPath = ""
       THEN /\ cloneRun' = [cloneRun EXCEPT !.pc = "threw"]
            /\ UNCHANGED received
       ELSE /\ cloneRun' = [cloneRun EXCEPT !.pc = "running",
                                            !.promise.state = "pending"]
            /\ received' = Append(received,
                                  log(outputListeners, "git clone repoURL repository\n"))
    /\ UNCHANGED <<outputListeners, disposers, disposeCalls, child, parser,
                   registryAll>>

\* the child has ended and its streams are closed: exec completes.  When
\* its promise is resolved the promise of clone is resolved with true; when
\* it is rejected the error handler of clone starts the deletion of the
\* target folder
ChildEnds ==
    /\ cloneRun.pc = "running"
    /\ LET done == exec(child)
           onDisk == IF child.event = "exit" /\ child.exitCode = 0 THEN TRUE
                     ELSE child.leavesFolder
       IN /\ received' = received \o [k \in 1..Len(done.logged) |->
                                        log(outputListeners, done.logged[k])]
          /\ cloneRun' =
                IF done.rejected
                THEN [cloneRun EXCEPT !.pc = "deleting", !.folder = onDisk,
                                      !.execError = done.error.kind]
                ELSE [cloneRun EXCEPT !.pc = "settled", !.folder = onDisk,
                                      !.promise = [state |-> "resolved",
                                                   value |-> "true"]]
    /\ UNCHANGED <<outputListeners, disposers, disposeCalls, child, parser,
                   registryAll>>

\* extfs.del calls back: with an error the promise of clone is rejected
\* with it, and else it is resolved with true
DelCallsBack ==
    /\ cloneRun.pc = "deleting"
    /\ cloneRun' =
          IF cloneRun.delError
          THEN [cloneRun EXCEPT !.pc = "settled",
                                !.promise = [state |-> "rejected",
                                             value |-> "err"]]
          ELSE [cloneRun EXCEPT !.pc = "settled", !.folder = FALSE,
                                !.promise = [state |-> "resolved",
                                             value |-> "true"]]
    /\ UNCHANGED <<outputVars, child, parser, registryAll>>

NextClone ==
    \/ Clone
    \/ ChildEnds
    \/ DelCallsBack

\* one clone, for every child and every outcome of the deletion
SpecClone == InitClone /\ [][NextClone]_vars

\* the promise clone returned is complete
CloneSettled == cloneRun.pc = "settled"

\* the promise clone returned is resolved with true
ResolvedWithTrue ==
    cloneRun.promise = [state |-> "resolved", value |-> "true"]

\* the git clone process exited with the code 0
CloneSucceeded == child.event = "exit" /\ child.exitCode = 0

(***************************************************************************)
(* C35: when the git clone process exits with a non-zero code, the target  *)
(* folder is deleted and the promise returned by clone does not resolve    *)
(* with true; the promise resolves with true only when the clone command   *)
(* itself succeeded.                                                       *)
(* Fails: the error handler of clone deletes the folder and, when the      *)
(* deletion succeeds, resolves the promise with true.                      *)
(***************************************************************************)
C35_CloneReportsFailure ==
    /\ (CloneSettled /\ ExitCodeIsTruthy(child)) =>
          (~cloneRun.folder /\ ~ResolvedWithTrue)
    /\ ResolvedWithTrue => CloneSucceeded

\* C35's case: the child exited with a non-zero code and left the folder,
\* the folder was deleted and the promise is resolved with true
C35_FailedCloneResolvedTrue ==
    /\ CloneSettled
    /\ ExitCodeIsTruthy(child)
    /\ child.leavesFolder
    /\ ~cloneRun.folder
    /\ ResolvedWithTrue

\* what holds: after a child that exited with a non-zero code or emitted
\* 'error', the promise is resolved with true exactly when the deletion
\* succeeded, and then the folder is gone; it is rejected exactly when the
\* deletion failed; after a child that exited with 0 it is resolved with
\* true and nothing is deleted
C35_ResolvesWhenFolderDeleted ==
    CloneSettled =>
        IF ExitCodeIsTruthy(child) \/ child.event = "error"
        THEN /\ ResolvedWithTrue <=> ~cloneRun.delError
             /\ cloneRun.promise.state = "rejected" <=> cloneRun.delError
             /\ ResolvedWithTrue => ~cloneRun.folder
        ELSE /\ ResolvedWithTrue
             /\ cloneRun.folder = (CloneSucceeded \/ child.leavesFolder)

(***************************************************************************)
(* Repository.getStatus: the parser of the output of git status -z.  The   *)
(* output is a sequence of characters; parser.i is the 0-based index the   *)
(* code reads from, parser.pc the place in the code: "loop" at the test    *)
(* of the outer while, "rename" and "path" inside the while of readName    *)
(* for the one and the other name, "done" when result is returned.         *)
(***************************************************************************)

\* the character '\u0000'
NUL == "NUL"

\* the records of an output: the two status characters, a space, and one
\* name (of a file or of a folder), or two for a rename, each ended by NUL
StatusRecords ==
    LET FileNames == {<<"a">>, <<"d", "/">>}
    IN {<<xy[1], xy[2], " ">> \o name \o <<NUL>> :
           xy \in {<<"M", " ">>, <<"?", "?">>}, name \in FileNames}
       \cup {<<"R", " ", " ">> \o to \o <<NUL>> \o from \o <<NUL>> :
                to \in FileNames, from \in FileNames}

\* the outputs of n records, each ended by NUL
RECURSIVE OutputsOf(_)
OutputsOf(n) ==
    IF n = 0 THEN {<<>>}
    ELSE {front \o record : front \in OutputsOf(n - 1), record \in StatusRecords}

\* the outputs of up to MaxRecords records
CompleteOutputs == UNION {OutputsOf(n) : n \in 0..MaxRecords}

\* the outputs given to the parser: the complete ones and every output cut
\* short, so that its last record is not ended by NUL
StatusOutputs ==
    UNION {{SubSeq(output, 1, n) : n \in 0..Len(output)} :
              output \in CompleteOutputs}

\* String.prototype.charAt(index): the empty string outside the string
charAt(string, index) ==
    IF index >= 0 /\ index < Len(string) THEN string[index + 1] ELSE ""

\* String.prototype.substring(from, to): both ends are brought into the
\* string, and swapped when from is the larger
substring(string, from, to) ==
    LET clamp(n) == IF n < 0 THEN 0 ELSE IF n > Len(string) THEN Len(string) ELSE n
        lo == IF clamp(from) <= clamp(to) THEN clamp(from) ELSE clamp(to)
        hi == IF clamp(from) <= clamp(to) THEN clamp(to) ELSE clamp(from)
    IN SubSeq(string, lo + 1, hi)

\* git status -z has written one of the outputs
InitStatus ==
    /\ Constructed
    /\ manifest = [extensionFolderPath |-> <<>>, pluginDescription |-> Undefined]
    /\ verdict = NoVerdict
    /\ GitConstructed
    /\ child = NoChild
    /\ cloneRun = NoClone
    /\ \E status \in StatusOutputs : parser = [NoStatus EXCEPT !.status = status]

\* the callback of getStatus starts on executionResult.stdout
StartParse ==
    /\ parser.pc = "idle"
    /\ parser' = [parser EXCEPT !.i = 0, !.result = <<>>, !.pc = "loop"]
    /\ UNCHANGED <<outputVars, cloneVars, registryAll>>

\* the test of the outer while: at the end of the output result is
\* returned; else the two status characters and the separator are read and
\* readName is entered, for the rename when x is 'R' and else for the path
LoopTest ==
    /\ parser.pc = "loop"
    /\ parser' =
          IF parser.i < Len(parser.status)
          THEN LET x == charAt(parser.status, parser.i)
                   y == charAt(parser.status, parser.i + 1)
               IN [parser EXCEPT
                      !.current = [x |-> x, y |-> y],
                      !.i = parser.i + 3,
                      !.start = parser.i + 3,
                      !.pc = IF x = "R" THEN "rename" ELSE "path"]
          ELSE [parser EXCEPT !.pc = "done"]
    /\ UNCHANGED <<outputVars, cloneVars, registryAll>>

\* the while of readName finds a character other than NUL and increments
\* the index (followed up to MaxOverrun beyond the end of the output)
ReadNameAdvance ==
    /\ parser.pc \in {"rename", "path"}
    /\ charAt(parser.status, parser.i) # NUL
    /\ parser.i < Len(parser.status) + MaxOverrun
    /\ parser' = [parser EXCEPT !.i = parser.i + 1]
    /\ UNCHANGED <<outputVars, cloneVars, registryAll>>

\* the while of readName finds NUL: readName returns the name and steps
\* over the NUL.  The rename is stored and readName is entered for the
\* path; the path is stored with its mime type (taken here as one value)
\* and the record is pushed, unless the path ends with a slash
ReadNameReturn ==
    /\ parser.pc \in {"rename", "path"}
    /\ charAt(parser.status, parser.i) = NUL
    /\ LET name == substring(parser.status, parser.start, parser.i)
           record == [x |-> parser.current.x, y |-> parser.current.y,
                      rename |-> IF parser.current.x = "R"
                                 THEN parser.current.rename ELSE <<>>,
                      path |-> name, mimetype |-> "mime"]
       IN parser' =
             IF parser.pc = "rename"
             THEN [parser EXCEPT
                      !.current = [x |-> parser.current.x, y |-> parser.current.y,
                                   rename |-> name],
                      !.i = parser.i + 1, !.start = parser.i + 1,
                      !.pc = "path"]
             ELSE [parser EXCEPT
                      !.current = record,
                      !.i = parser.i + 1,
                      !.result = IF name # <<>> /\ Last(name) = "/"
                                 THEN parser.result
                                 ELSE Append(parser.result, record),
                      !.pc = "loop"]
    /\ UNCHANGED <<outputVars, cloneVars, registryAll>>

NextStatus ==
    \/ StartParse
    \/ LoopTest
    \/ ReadNameAdvance
    \/ ReadNameReturn

\* the parser on every output
SpecStatus == InitStatus /\ [][NextStatus]_vars

\* the parser runs on: the callback is one piece of sequential code, which
\* takes its next step whenever it has one
SpecStatusFair == SpecStatus /\ WF_vars(NextStatus)

\* the parser is inside the while of readName
InReadName == parser.pc \in {"rename", "path"}

\* the parser has returned result
ParseDone == parser.pc = "done"

\* inside the while of readName the index is not beyond the end of the
\* output
IndexWithinStatus == InReadName => parser.i <= Len(parser.status)

(***************************************************************************)
(* C36: the status parser terminates for every output of git status -z,    *)
(* also for one whose last record is not ended by NUL, and inside the      *)
(* name-reading loop the index it reads from is never beyond the end of    *)
(* the output.                                                             *)
(* Fails: beyond the end charAt answers the empty string, which is not     *)
(* NUL, so the while of readName goes on incrementing the index for ever.  *)
(***************************************************************************)
C36_ParserTerminates == []IndexWithinStatus /\ <>ParseDone

\* C36's case: the output is not empty and its last record is not ended by
\* NUL, and the parser is inside the while of readName at the end of the
\* output
C36_UnterminatedLastRecord ==
    /\ parser.status # <<>>
    /\ Last(parser.status) # NUL
    /\ InReadName
    /\ parser.i >= Len(parser.status)

\* what holds: on an output whose records are all ended by NUL the parser
\* terminates and the index stays inside the output in the while of
\* readName
C36_TerminatesOnCompleteOutput ==
    (parser.status \in CompleteOutputs) =>
        ([](InReadName => parser.i < Len(parser.status)) /\ <>ParseDone)

====
